---- MODULE Spec2Model ----
(***************************************************************************)
(* Model of the software renderer of hytale-skin-renderer: frustum         *)
(* clipping (renderer/clip.rs), face projection and backface culling       *)
(* (renderer/mod.rs), fan triangulation (renderer/face.rs,                 *)
(* renderer/debug.rs) and depth-buffered rasterization                     *)
(* (renderer/rasterizer.rs).                                               *)
(*                                                                         *)
(* Numbers.  The code computes in f32; the model computes in exact         *)
(* rational arithmetic.  A ClipVertex carries integer numerators and one   *)
(* shared positive denominator `den` (every attribute of an intersection   *)
(* vertex is a lerp with the same t, so one denominator is enough).        *)
(* Clip-space coordinates are counted in quanta of 5e-11, so that the      *)
(* 1e-10 threshold of compute_intersection_t is ClipEps = 2 quanta and     *)
(* both of its branches are taken by small integers.                       *)
(***************************************************************************)
EXTENDS Integers, Sequences, FiniteSets, TLC

VARIABLES
    c_face,      \* clip: the input geometry::Face
    c_vp,        \* clip: the view-projection matrix (four rows)
    vertices,    \* clip: the polygon being clipped (Vec<ClipVertex>)
    c_prev,      \* clip: the polygon handed to the last sutherland_hodgman_clip
    c_plane,     \* clip: index into `planes` of the last plane clipped (0: none)
    c_pc,        \* clip: "idle" | "start" | "clip" | "done"
    c_result     \* clip: "pending" | "None" | "Some"

VARIABLES
    r_faces,        \* render: the faces handed to render_scene_internal
    r_debug,        \* render: debug_mode
    r_config,       \* render: RenderConfig
    r_pc,           \* render: "idle" | "project" | "render" | "done"
    r_i,            \* render: index of the next face to project / render
    next_part_index,\* render: the counter of render_scene_internal
    render_faces,   \* render: Vec<RenderFace> of projected, unculled faces
    image,          \* render: RgbaImage, pixel index y * width + x -> <<r, g, b, a>>
    depth_buffer,   \* render: Vec<f32>, same indexing
    proj_log,       \* history: per input face, what the projection loop did
    tri_log,        \* history: per rendered face, the triangles rasterized
    frag_log        \* history: per pixel, the fragments that covered it

VARIABLES
    t_gradient,  \* tint: the TintGradient (pixels, inverted, brightness)
    t_pixel,     \* tint: the pixel handed to apply_tint (<<>>: none yet)
    t_out,       \* tint: what apply_tint returned (<<>>: none yet)
    t_grey,      \* tint: the grey handed to TintGradient::lookup (<<>>: none yet)
    t_index,     \* history: the index lookup read (-1: none read)
    t_lookup,    \* tint: what lookup returned (<<>>: none yet)
    t_pc         \* tint: "idle" | "start" | "applied" | "looked"

clipVars == <<c_face, c_vp, vertices, c_prev, c_plane, c_pc, c_result>>
renderVars == <<r_faces, r_debug, r_config, r_pc, r_i, next_part_index, render_faces,
                image, depth_buffer, proj_log, tri_log, frag_log>>

VARIABLES
    s_model,     \* scene: BlockyModel.nodes as an arena in depth-first order;
                 \*        each Node carries the index of its parent (0: a root)
    s_config,    \* scene: Option<&JointSpacingConfig>
    s_pose,      \* scene: Option<&AnimationPose>
    s_nodes,     \* scene: the SceneNodes built so far, in the same order
    s_cpt,       \* scene: child_parent_transform of each build_scene_node call
    s_pc         \* scene: "idle" | "build" | "done"

VARIABLES
    a_anim,      \* animation: the BlockyAnimation sampled
    a_frame,     \* animation: the frame f of the first sample (<<>>: none yet)
    a_k,         \* animation: the number of loops the second sample is shifted by
    a_poses,     \* animation: the AnimationPoses sampled so far
    a_pc         \* animation: "idle" | "start" | "sampled" | "done"

VARIABLES
    g_shape,     \* geometry: the Shape handed to generate_geometry
    g_transform, \* geometry: the world transform handed to it
    g_faces,     \* geometry: the Vec<Face> returned
    g_pc         \* geometry: "idle" | "start" | "done"

VARIABLES
    k_head,      \* skin: head_info, TRUE when the model has Head bounds to cull against
    k_faces,     \* skin: BodyRenderer.faces
    hair_face_range,                \* skin: the field of BodyRenderer
    active_head_accessory_culling,  \* skin: the field of BodyRenderer
    k_config,    \* skin: the SkinConfig of the application under way
    k_app,       \* skin: number of apply_skin_with_provider calls begun
    k_headlog,   \* history: what the head accessory loop of this call started from
    k_hairlog,   \* history: the faces before hair culling, and whether it panicked
    k_pc         \* skin: "idle" | "ready" | "head_accessory" | "hair_culling" | "panicked"

VARIABLES
    h_faces,     \* culling: the faces handed to apply_hair_culling_to_range
    h_start,     \* culling: start_index
    h_end,       \* culling: end_index
    h_mode,      \* culling: culling_mode
    h_out,       \* culling: the faces left, the indices examined, panicked or not
    h_pc         \* culling: "idle" | "start" | "done"

VARIABLES
    m_self,      \* merge: the nodes of the graph merged into
    m_other,     \* merge: the nodes of the graph merged in
    m_id,        \* merge: texture_id
    m_out,       \* merge: the nodes of the graph after merge_graph
    m_pc         \* merge: "idle" | "start" | "done"

\* The pixel loops of one triangle (rasterizer.rs 53-68, debug.rs 108-133)
VARIABLES
    b_tri,      \* the screen coordinates of the three vertices, as f32
    b_width,    \* output_width, the width of the image
    b_height,   \* output_height, the height of the image
    b_checked,  \* TRUE when the build checks integer overflow (debug)
    b_out,      \* what the loops did: see PixelLoops
    b_pc        \* "start", "done" or "panicked"

tintVars == <<t_gradient, t_pixel, t_out, t_grey, t_index, t_lookup, t_pc>>
sceneVars == <<s_model, s_config, s_pose, s_nodes, s_cpt, s_pc>>
animVars == <<a_anim, a_frame, a_k, a_poses, a_pc>>
geomVars == <<g_shape, g_transform, g_faces, g_pc>>
skinVars == <<k_head, k_faces, hair_face_range, active_head_accessory_culling, k_config, k_app, k_headlog, k_hairlog, k_pc>>
cullVars == <<h_faces, h_start, h_end, h_mode, h_out, h_pc>>
mergeVars == <<m_self, m_other, m_id, m_out, m_pc>>
boundsVars == <<b_tri, b_width, b_height, b_checked, b_out, b_pc>>
vars == <<clipVars, renderVars, tintVars, sceneVars, animVars, geomVars, skinVars, cullVars, mergeVars, boundsVars>>

\* The state of the tint functions while another part of the program runs
TintIdle ==
    /\ t_gradient = <<>> /\ t_pixel = <<>> /\ t_out = <<>> /\ t_grey = <<>>
    /\ t_index = -1 /\ t_lookup = <<>> /\ t_pc = "idle"

\* The state of the scene builder while another part of the program runs
SceneIdle ==
    /\ s_model = <<>> /\ s_config = <<>> /\ s_pose = <<>>
    /\ s_nodes = <<>> /\ s_cpt = <<>> /\ s_pc = "idle"

\* The state of the animation sampler while another part of the program runs
AnimIdle ==
    /\ a_anim = <<>> /\ a_frame = <<>> /\ a_k = 0 /\ a_poses = <<>> /\ a_pc = "idle"

\* The state of the geometry generator while another part of the program runs
GeomIdle ==
    /\ g_shape = <<>> /\ g_transform = <<>> /\ g_faces = <<>> /\ g_pc = "idle"

\* The state of the skin pipeline while another part of the program runs
SkinIdle ==
    /\ k_head = FALSE /\ k_faces = <<>> /\ hair_face_range = <<>> /\ active_head_accessory_culling = <<>> /\ k_config = <<>> /\ k_app = 0 /\ k_headlog = <<>> /\ k_hairlog = <<>> /\ k_pc = "idle"

\* The state of the hair culling while another part of the program runs
CullIdle ==
    /\ h_faces = <<>> /\ h_start = 0 /\ h_end = 0 /\ h_mode = "" /\ h_out = <<>> /\ h_pc = "idle"

\* The state of the graph merge while another part of the program runs
MergeIdle ==
    /\ m_self = <<>> /\ m_other = <<>> /\ m_id = 0 /\ m_out = <<>> /\ m_pc = "idle"

\* The state of the pixel loops while another part of the program runs
BoundsIdle ==
    /\ b_tri = <<>> /\ b_width = 0 /\ b_height = 0 /\ b_checked = FALSE /\ b_out = <<>> /\ b_pc = "idle"

(***************************************************************************)
(* Arithmetic helpers                                                      *)
(***************************************************************************)
Abs(x) == IF x < 0 THEN -x ELSE x

RECURSIVE GcdNat(_, _)
GcdNat(a, b) == IF b = 0 THEN a ELSE GcdNat(b, a % b)

Gcd(a, b) == GcdNat(Abs(a), Abs(b))

RECURSIVE GcdSeq(_)
GcdSeq(s) == IF Len(s) = 0 THEN 0 ELSE Gcd(Head(s), GcdSeq(Tail(s)))

\* Option<T> is a sequence of length 0 (None) or 1 (Some)
None == <<>>
Some(x) == <<x>>
IsSome(o) == Len(o) = 1

\* A rational n/d with d > 0, in lowest terms
Rat(n, d) ==
    LET s == IF d < 0 THEN -1 ELSE 1
        g == Gcd(n, d)
    IN  <<(s * n) \div g, (s * d) \div g>>

RatLe(a, b) == a[1] * b[2] <= b[1] * a[2]
RatLt(a, b) == a[1] * b[2] < b[1] * a[2]
RAdd(a, b) == Rat(a[1] * b[2] + b[1] * a[2], a[2] * b[2])
RSub(a, b) == Rat(a[1] * b[2] - b[1] * a[2], a[2] * b[2])
RMul(a, b) == Rat(a[1] * b[1], a[2] * b[2])
RDiv(a, b) == Rat(a[1] * b[2], a[2] * b[1])
RInt(n) == <<n, 1>>
RMin(a, b) == IF RatLt(b, a) THEN b ELSE a
RMax(a, b) == IF RatLt(a, b) THEN b ELSE a
\* f32 -> u32 cast of a value that is not negative: truncation
RTrunc(a) == a[1] \div a[2]
RFloor(a) == a[1] \div a[2]

(***************************************************************************)
(* renderer/clip.rs                                                        *)
(***************************************************************************)

\* 1e-10 in clip quanta (clip.rs:176)
ClipEps == 2

\* A plane list that forgets the far plane
planes_without_far == <<"Near", "Left", "Right", "Bottom", "Top">>

\* The order clip_face_to_frustum and is_trivially_rejected walk the planes
planes == <<"Near", "Left", "Right", "Bottom", "Top", "Far">>

\* signed_distance on the numerators of a clip position <<x, y, z, w>>
signed_distance(clip_pos, plane) ==
    CASE plane = "Left"   -> clip_pos[1] + clip_pos[4]
      [] plane = "Right"  -> clip_pos[4] - clip_pos[1]
      [] plane = "Bottom" -> clip_pos[2] + clip_pos[4]
      [] plane = "Top"    -> clip_pos[4] - clip_pos[2]
      [] plane = "Near"   -> clip_pos[3] + clip_pos[4]
      [] plane = "Far"    -> clip_pos[4] - clip_pos[3]

\* The denominator is positive, so the sign of the distance is the sign of
\* its numerator.
is_inside(vertex, plane) == signed_distance(vertex.clip_pos, plane) >= 0

\* Mat4 * Vec4 with the matrix given as four rows
MatMulVec4(m, v) ==
    [r \in 1..4 |-> m[r][1] * v[1] + m[r][2] * v[2] + m[r][3] * v[3] + m[r][4] * v[4]]

\* The closure of clip_face_to_frustum that turns a geometry::Vertex into a
\* ClipVertex
ToClipVertex(v, vp_matrix) ==
    [ world_pos |-> v.position,
      uv        |-> v.uv,
      clip_pos  |-> MatMulVec4(vp_matrix, <<v.position[1], v.position[2], v.position[3], 1>>),
      normal    |-> v.normal,
      den       |-> 1 ]

is_trivially_rejected(vs) ==
    \E k \in 1..Len(planes) : \A i \in 1..Len(vs) : ~is_inside(vs[i], planes[k])

\* A rejecting variant of the intersection parameter: no result for a tiny
\* denominator, no clamp.
compute_intersection_t_rejecting(v1, v2, plane) ==
    LET n1 == signed_distance(v1.clip_pos, plane) * v2.den
        n2 == signed_distance(v2.clip_pos, plane) * v1.den
        dn == n1 - n2
    IN  IF Abs(dn) < ClipEps * v1.den * v2.den
        THEN None
        ELSE Some(Rat(n1, dn))

\* A fallback that returns the far endpoint of the edge instead of its
\* midpoint
compute_intersection_t_far_endpoint(v1, v2, plane) ==
    LET n1 == signed_distance(v1.clip_pos, plane) * v2.den
        n2 == signed_distance(v2.clip_pos, plane) * v1.den
        dn == n1 - n2
        t  == Rat(n1, dn)
    IN  IF Abs(dn) < ClipEps * v1.den * v2.den
        THEN Some(<<1, 1>>)
        ELSE Some(IF t[1] < 0 THEN <<0, 1>>
                  ELSE IF t[1] > t[2] THEN <<1, 1>>
                  ELSE t)

\* compute_intersection_t: d1 = s1/q1, d2 = s2/q2, denominator = d1 - d2
compute_intersection_t(v1, v2, plane) ==
    LET n1 == signed_distance(v1.clip_pos, plane) * v2.den
        n2 == signed_distance(v2.clip_pos, plane) * v1.den
        dn == n1 - n2
        t  == Rat(n1, dn)
    IN  IF Abs(dn) < ClipEps * v1.den * v2.den
        THEN Some(<<1, 2>>)
        ELSE Some(IF t[1] < 0 THEN <<0, 1>>
                  ELSE IF t[1] > t[2] THEN <<1, 1>>
                  ELSE t)

\* An interpolation that forgets to subtract: a + t b
LerpNumNoSubtract(a, qa, b, qb, t) == a * qb * t[2] + t[1] * b * qa

\* a + t (b - a) for numerators a (over qa) and b (over qb), as a numerator
\* over qa * qb * t[2]
LerpNum(a, qa, b, qb, t) == a * qb * (t[2] - t[1]) + t[1] * b * qa

\* Vec3::lerp(..).normalize() on normals.  A normal is [v, nan]; every face
\* carries one normal on all of its vertices (geometry.rs create_face_with_uvs),
\* so the two operands are equal or one of them is already NaN.
NaNNormal == [v |-> <<0, 0, 0>>, nan |-> TRUE]
LerpNormalize(n1, n2, t) ==
    CASE n1.nan \/ n2.nan -> NaNNormal
      [] ~n1.nan /\ ~n2.nan /\ n1 = n2 ->
            IF n1.v = <<0, 0, 0>> THEN NaNNormal ELSE n1

\* Bring a vertex to lowest terms
ReduceVertex(v) ==
    LET g == GcdSeq(<<v.den>> \o v.world_pos \o v.uv \o v.clip_pos)
    IN  [ world_pos |-> [i \in 1..3 |-> v.world_pos[i] \div g],
          uv        |-> [i \in 1..2 |-> v.uv[i] \div g],
          clip_pos  |-> [i \in 1..4 |-> v.clip_pos[i] \div g],
          normal    |-> v.normal,
          den       |-> v.den \div g ]

compute_intersection(v1, v2, plane) ==
    LET ot == compute_intersection_t(v1, v2, plane)
    IN  IF ~IsSome(ot) THEN None
        ELSE LET t == ot[1]
             IN  Some(ReduceVertex(
                   [ world_pos |-> [i \in 1..3 |-> LerpNum(v1.world_pos[i], v1.den, v2.world_pos[i], v2.den, t)],
                     uv        |-> [i \in 1..2 |-> LerpNum(v1.uv[i], v1.den, v2.uv[i], v2.den, t)],
                     clip_pos  |-> [i \in 1..4 |-> LerpNum(v1.clip_pos[i], v1.den, v2.clip_pos[i], v2.den, t)],
                     normal    |-> LerpNormalize(v1.normal, v2.normal, t),
                     den       |-> v1.den * v2.den * t[2] ]))

\* A clipper that pushes the start of every kept edge instead of its end
ClipEdgePushCurrent(current, next, plane) ==
    LET current_inside == is_inside(current, plane)
        next_inside    == is_inside(next, plane)
    IN  CASE current_inside /\ next_inside   -> <<current>>
          [] current_inside /\ ~next_inside  -> <<current>> \o compute_intersection(current, next, plane)
          [] ~current_inside /\ next_inside  -> compute_intersection(current, next, plane)
          [] ~current_inside /\ ~next_inside -> <<>>

\* One iteration of the loop of sutherland_hodgman_clip: what the edge
\* current -> next appends to `output`
ClipEdge(current, next, plane) ==
    LET current_inside == is_inside(current, plane)
        next_inside    == is_inside(next, plane)
    IN  CASE current_inside /\ next_inside   -> <<next>>
          [] current_inside /\ ~next_inside  -> compute_intersection(current, next, plane)
          [] ~current_inside /\ next_inside  -> compute_intersection(current, next, plane) \o <<next>>
          [] ~current_inside /\ ~next_inside -> <<>>

RECURSIVE ClipEdgesFrom(_, _, _)
ClipEdgesFrom(vs, plane, i) ==
    IF i > Len(vs) THEN <<>>
    ELSE ClipEdge(vs[i], vs[(i % Len(vs)) + 1], plane) \o ClipEdgesFrom(vs, plane, i + 1)

sutherland_hodgman_clip(vs, plane) ==
    IF Len(vs) < 3 THEN <<>> ELSE ClipEdgesFrom(vs, plane, 1)

RECURSIVE ClipPlanesFrom(_, _)
ClipPlanesFrom(vs, k) ==
    IF k > Len(planes) THEN Some(vs)
    ELSE LET out == sutherland_hodgman_clip(vs, planes[k])
         IN  IF Len(out) < 3 THEN None ELSE ClipPlanesFrom(out, k + 1)

clip_face_to_frustum(face, vp_matrix) ==
    LET vs == [i \in 1..Len(face.vertices) |-> ToClipVertex(face.vertices[i], vp_matrix)]
    IN  IF is_trivially_rejected(vs) THEN None ELSE ClipPlanesFrom(vs, 1)

(***************************************************************************)
(* Inputs of the clipper                                                   *)
(***************************************************************************)

\* geometry.rs QUAD_UVS
QUAD_UVS == <<<<0, 1>>, <<1, 1>>, <<1, 0>>, <<0, 0>>>>

\* Largest number of vertices of an input face
MaxFaceVerts == 4

\* World positions the input faces are built from
WorldPool ==
    { <<0, 0, 0>>, <<1, 0, -2>>, <<0, 1, -2>>, <<-1, -1, -2>>,
      <<2, 0, -2>>, <<3, 0, -2>>, <<0, 0, 1>>, <<0, 2, -3>>,
      <<-3, 0, 0>>, <<-4, 0, -1>>, <<0, 4, -1>>, <<1, -5, 0>>, <<0, 0, -4>> }

\* View-projection matrices (rows).  The fourth column multiplies the
\* homogeneous 1 and is counted in clip quanta.
\*  VpOrtho: an orthographic-style matrix, w constant (3 quanta)
\*  VpPersp: glam perspective_rh(90 deg, 1, near, far) with near = 2, far = 4
\*           quanta and the eye at the origin: z' = -2z - 4, w' = -z
\*  VpPersp0: the same with near = 0: z' = -z, w' = -z
VpOrtho  == <<<<1, 0, 0, 0>>, <<0, 1, 0, 0>>, <<0, 0, 1, 0>>, <<0, 0, 0, 3>>>>
VpPersp  == <<<<1, 0, 0, 0>>, <<0, 1, 0, 0>>, <<0, 0, -2, -4>>, <<0, 0, -1, 0>>>>
VpPersp0 == <<<<1, 0, 0, 0>>, <<0, 1, 0, 0>>, <<0, 0, -1, 0>>, <<0, 0, -1, 0>>>>
VpMatrices == {VpOrtho, VpPersp, VpPersp0}

FaceNormals == { [v |-> <<0, 0, 0>>, nan |-> FALSE], [v |-> <<0, 0, 1>>, nan |-> FALSE] }

MkFace(ps, n) ==
    [ vertices |-> [i \in 1..Len(ps) |-> [position |-> ps[i], normal |-> n, uv |-> QUAD_UVS[((i - 1) % 4) + 1]]],
      texture_face |-> "front" ]

\* Triangles over the pool, the quads that extend a triangle by the fourth
\* corner of its parallelogram, and the pentagons that extend such a quad by
\* the mirror image of its second corner in its first
Triangles == { ps \in [1..3 -> WorldPool] : ps[1] # ps[2] /\ ps[2] # ps[3] /\ ps[1] # ps[3] }
QuadOf(ps) == ps \o << [i \in 1..3 |-> ps[1][i] + ps[3][i] - ps[2][i]] >>
PentagonOf(ps) == QuadOf(ps) \o << [i \in 1..3 |-> 2 * ps[1][i] - ps[2][i]] >>
ClipFaces ==
    { MkFace(ps, n) : ps \in Triangles, n \in FaceNormals }
    \cup (IF MaxFaceVerts >= 4
          THEN { MkFace(QuadOf(ps), [v |-> <<0, 0, 1>>, nan |-> FALSE]) : ps \in Triangles }
          ELSE {})
    \cup (IF MaxFaceVerts >= 5
          THEN { MkFace(PentagonOf(ps), [v |-> <<0, 0, 1>>, nan |-> FALSE]) : ps \in Triangles }
          ELSE {})

(***************************************************************************)
(* The clipper as a state machine: one step per plane                      *)
(***************************************************************************)
RenderIdle ==
    /\ r_faces = <<>> /\ r_debug = FALSE /\ r_config = <<>> /\ r_pc = "idle" /\ r_i = 0
    /\ next_part_index = 0 /\ render_faces = <<>> /\ image = <<>> /\ depth_buffer = <<>>
    /\ proj_log = <<>> /\ tri_log = <<>> /\ frag_log = <<>>

ClipInit ==
    /\ RenderIdle
    /\ TintIdle
    /\ SceneIdle
    /\ AnimIdle
    /\ GeomIdle
    /\ SkinIdle
    /\ CullIdle
    /\ MergeIdle
    /\ BoundsIdle
    /\ c_face \in ClipFaces
    /\ c_vp \in VpMatrices
    /\ vertices = <<>>
    /\ c_prev = <<>>
    /\ c_plane = 0
    /\ c_pc = "start"
    /\ c_result = "pending"

\* clip.rs 30-48: transform to clip space, early rejection
ClipTransform ==
    /\ c_pc = "start"
    /\ LET vs == [i \in 1..Len(c_face.vertices) |-> ToClipVertex(c_face.vertices[i], c_vp)]
       IN  /\ vertices' = vs
           /\ IF is_trivially_rejected(vs)
              THEN c_pc' = "done" /\ c_result' = "None"
              ELSE c_pc' = "clip" /\ c_result' = "pending"
    /\ UNCHANGED <<c_face, c_vp, c_prev, c_plane, renderVars, tintVars, sceneVars, animVars, geomVars, skinVars, cullVars, mergeVars, boundsVars>>

\* A loop body without the early return on fewer than 3 vertices
ClipStepNoLenCheck ==
    /\ c_pc = "clip"
    /\ LET k   == c_plane + 1
           out == sutherland_hodgman_clip(vertices, planes[k])
       IN  /\ c_prev' = vertices
           /\ vertices' = out
           /\ c_plane' = k
           /\ IF k = Len(planes)
              THEN c_pc' = "done" /\ c_result' = "Some"
              ELSE c_pc' = "clip" /\ c_result' = "pending"
    /\ UNCHANGED <<c_face, c_vp, renderVars, tintVars, sceneVars, animVars, geomVars, skinVars, cullVars, mergeVars, boundsVars>>

\* clip.rs 62-69: one iteration of the loop over the planes
ClipStep ==
    /\ c_pc = "clip"
    /\ LET k   == c_plane + 1
           out == sutherland_hodgman_clip(vertices, planes[k])
       IN  /\ c_prev' = vertices
           /\ vertices' = out
           /\ c_plane' = k
           /\ IF Len(out) < 3
              THEN c_pc' = "done" /\ c_result' = "None"
              ELSE IF k = Len(planes)
                   THEN c_pc' = "done" /\ c_result' = "Some"
                   ELSE c_pc' = "clip" /\ c_result' = "pending"
    /\ UNCHANGED <<c_face, c_vp, renderVars, tintVars, sceneVars, animVars, geomVars, skinVars, cullVars, mergeVars, boundsVars>>

ClipNext == ClipTransform \/ ClipStep

SpecClip == ClipInit /\ [][ClipNext]_vars

(***************************************************************************)
(* texture.rs: nearest-neighbour sampling of a face                        *)
(*                                                                         *)
(* A Texture is [width, height, pixels] with pixels[y * width + x + 1] the *)
(* texel <<r, g, b, a>>; u, v and texel coordinates are rationals.         *)
(***************************************************************************)
ClampInt(x, lo, hi) == IF x < lo THEN lo ELSE IF x > hi THEN hi ELSE x

sample_pixel(texture, x, y) ==
    LET px == ClampInt(RFloor(x), 0, texture.width - 1)
        py == ClampInt(RFloor(y), 0, texture.height - 1)
    IN  texture.pixels[py * texture.width + px + 1]

apply_rotation(u, v, offset, angle) ==
    LET rel_u == RSub(u, RInt(offset[1]))
        rel_v == RSub(v, RInt(offset[2]))
    IN  CASE angle = 0   -> <<u, v>>
          [] angle = 90  -> <<RSub(RInt(offset[1]), rel_v), RAdd(RInt(offset[2]), rel_u)>>
          [] angle = 180 -> <<RSub(RInt(offset[1]), rel_u), RSub(RInt(offset[2]), rel_v)>>
          [] angle = 270 -> <<RAdd(RInt(offset[1]), rel_v), RSub(RInt(offset[2]), rel_u)>>
          [] OTHER       -> <<u, v>>

transform_uv_coords(face, size_x, size_y, u, v) ==
    LET tex_u == IF face.mirror[1]
                 THEN RSub(RInt(face.offset[1]), RMul(u, RInt(size_x)))
                 ELSE RAdd(RInt(face.offset[1]), RMul(u, RInt(size_x)))
        tex_v == IF face.mirror[2]
                 THEN RSub(RInt(face.offset[2]), RMul(v, RInt(size_y)))
                 ELSE RAdd(RInt(face.offset[2]), RMul(v, RInt(size_y)))
    IN  apply_rotation(tex_u, tex_v, face.offset, face.angle)

sample_face_texture(texture, face, size_x, size_y, u, v) ==
    LET t == transform_uv_coords(face, size_x, size_y, u, v)
    IN  sample_pixel(texture, t[1], t[2])

(***************************************************************************)
(* renderer/math.rs                                                        *)
(***************************************************************************)
\* math.rs 48-58: the solution from the five dot products and denom.  The
\* test denom.abs() < 1e-10: every rational with a 32-bit denominator that is
\* not 0 is at least 1e-10 in magnitude, so the test is denom = 0.
BaryFromUV(u, v) == <<u, v, RSub(RSub(RInt(1), u), v)>>

BarySolve(dot00, dot01, dot02, dot11, dot12, denom) ==
    IF denom[1] = 0
    THEN <<RInt(-1), RInt(-1), RInt(-1)>>
    ELSE BaryFromUV(RDiv(RSub(RMul(dot11, dot02), RMul(dot01, dot12)), denom),
                    RDiv(RSub(RMul(dot00, dot12), RMul(dot01, dot02)), denom))

\* math.rs 44: denom from the dot products
BaryFromDots(dot00, dot01, dot02, dot11, dot12) ==
    BarySolve(dot00, dot01, dot02, dot11, dot12, RSub(RMul(dot00, dot11), RMul(dot01, dot01)))

\* math.rs 38-42: the dot products of the edge vectors v0, v1 and of v2
BaryFromEdges(v0x, v0y, v1x, v1y, v2x, v2y) ==
    BaryFromDots(RAdd(RMul(v0x, v0x), RMul(v0y, v0y)),
                 RAdd(RMul(v0x, v1x), RMul(v0y, v1y)),
                 RAdd(RMul(v0x, v2x), RMul(v0y, v2y)),
                 RAdd(RMul(v1x, v1x), RMul(v1y, v1y)),
                 RAdd(RMul(v1x, v2x), RMul(v1y, v2y)))

barycentric_coords(px, py, x0, y0, x1, y1, x2, y2) ==
    BaryFromEdges(RSub(x2, x0), RSub(y2, y0), RSub(x1, x0), RSub(y1, y0), RSub(px, x0), RSub(py, y0))

(***************************************************************************)
(* renderer/rasterizer.rs and renderer/debug.rs                            *)
(*                                                                         *)
(* Depths are rationals counted in quanta of 0.0005, so DEPTH_BIAS         *)
(* (0.001) is 2.  A frame buffer fb is [image, depth_buffer, frags, tris]: *)
(* frags and tris are history (the fragments that covered each pixel, the  *)
(* triangles handed to the rasterizer).                                    *)
(***************************************************************************)
DEPTH_BIAS == 2

\* f32::MAX, the background of the depth buffer
F32Max == <<1, 0>>

\* A depth test that lets every fragment pass
DepthTestAlways(depth, stored) == TRUE

\* rasterizer.rs:70  depth < depth_buffer[buffer_index] - DEPTH_BIAS.
\* f32::MAX - 0.001 rounds to f32::MAX, and every depth of the model is
\* below f32::MAX.
DepthTest(depth, stored) ==
    IF stored = F32Max THEN TRUE ELSE RatLt(depth, RSub(stored, RInt(DEPTH_BIAS)))

\* debug.rs:130  depth < depth_buffer[buffer_index]
DebugDepthTest(depth, stored) ==
    IF stored = F32Max THEN TRUE ELSE RatLt(depth, stored)

\* The closure apply_gamma of render_triangle_tinted.  powf is exact only at
\* 0 and 1: the model keeps colour channels in {0, 255} and lighting in {0, 1}.
apply_gamma(c, lighting) ==
    CASE c = 0 -> 0
      [] c = 255 /\ lighting = <<0, 1>> -> 0
      [] c = 255 /\ lighting = <<1, 1>> -> 255

\* rasterizer.rs 175-198
ApplyLighting(pixel, config, face_normal) ==
    IF config.light_config.enabled
    THEN LET l   == config.light_config.light_direction
             dot == IF face_normal.nan THEN 0
                    ELSE face_normal.v[1] * l[1] + face_normal.v[2] * l[2] + face_normal.v[3] * l[3]
             n_dot_l  == IF dot < 0 THEN 0 ELSE dot
             lighting == RMin(RAdd(config.light_config.ambient,
                                   RMul(config.light_config.diffuse, RInt(n_dot_l))), RInt(1))
         IN  <<apply_gamma(pixel[1], lighting), apply_gamma(pixel[2], lighting),
               apply_gamma(pixel[3], lighting), pixel[4]>>
    ELSE pixel

\* A write that stores the depth before looking at alpha
WriteFragmentDepthFirst(stored_depth, stored_pixel, depth, pixel) ==
    IF pixel[4] > 0 THEN <<depth, pixel>> ELSE <<depth, stored_pixel>>

\* rasterizer.rs 200-203: what a fragment that passed the depth test leaves
\* in the depth buffer and the image
WriteFragment(stored_depth, stored_pixel, depth, pixel) ==
    IF pixel[4] > 0 THEN <<depth, pixel>> ELSE <<stored_depth, stored_pixel>>

\* rasterizer.rs 53-59 / debug.rs 109-116: the pixel ranges of the two loops
PixelBounds(vs, width, height) ==
    LET min_x == RTrunc(RMax(RMin(RMin(vs[1][1], vs[2][1]), vs[3][1]), RInt(0)))
        max_x == RTrunc(RMax(RMin(RMax(RMax(vs[1][1], vs[2][1]), vs[3][1]), RInt(width)), RInt(0)))
        min_y == RTrunc(RMax(RMin(RMin(vs[1][2], vs[2][2]), vs[3][2]), RInt(0)))
        max_y == RTrunc(RMax(RMin(RMax(RMax(vs[1][2], vs[2][2]), vs[3][2]), RInt(height)), RInt(0)))
    IN  [ min_x |-> min_x, max_x |-> IF max_x < width - 1 THEN max_x ELSE width - 1,
          min_y |-> min_y, max_y |-> IF max_y < height - 1 THEN max_y ELSE height - 1 ]

InBounds(b, x, y) == b.min_x <= x /\ x <= b.max_x /\ b.min_y <= y /\ y <= b.max_y

Half == <<1, 2>>

\* Weighted sum bary_w * a0 + bary_v * a1 + bary_u * a2
BaryMix(bary, a0, a1, a2) ==
    RAdd(RAdd(RMul(bary[3], a0), RMul(bary[2], a1)), RMul(bary[1], a2))

BaryAt(vs, x, y) ==
    barycentric_coords(RAdd(RInt(x), Half), RAdd(RInt(y), Half),
                       vs[1][1], vs[1][2], vs[2][1], vs[2][2], vs[3][1], vs[3][2])

BaryInside(bary) == bary[1][1] >= 0 /\ bary[2][1] >= 0 /\ bary[3][1] >= 0

\* The frame buffer after a triangle: cells[i] is [depth, pixel, frag] for
\* pixel i, frag the fragment (if any) the triangle produced there
MergeCells(fb, cells, tag) ==
    [ image        |-> [i \in DOMAIN fb.image |-> cells[i].pixel],
      depth_buffer |-> [i \in DOMAIN fb.image |-> cells[i].depth],
      frags        |-> [i \in DOMAIN fb.image |-> fb.frags[i] \o cells[i].frag],
      tris         |-> Append(fb.tris, tag) ]

UntouchedCell(fb, i) == [ depth |-> fb.depth_buffer[i], pixel |-> fb.image[i], frag |-> <<>> ]

FragmentCell(out, depth, pixel, tag) ==
    [ depth |-> out[1], pixel |-> out[2],
      frag |-> <<[depth |-> depth, pixel |-> pixel, tri |-> tag]>> ]

\* A covered pixel under a depth test without the bias
TintedFragmentNoBias(fb, i, depth, pixel, tag) ==
    FragmentCell(IF DebugDepthTest(depth, fb.depth_buffer[i])
                 THEN WriteFragment(fb.depth_buffer[i], fb.image[i], depth, pixel)
                 ELSE <<fb.depth_buffer[i], fb.image[i]>>,
                 depth, pixel, tag)

\* rasterizer.rs 70-203: a covered pixel, from its depth and its lit texel
TintedFragment(fb, i, depth, pixel, tag) ==
    FragmentCell(IF DepthTest(depth, fb.depth_buffer[i])
                 THEN WriteFragment(fb.depth_buffer[i], fb.image[i], depth, pixel)
                 ELSE <<fb.depth_buffer[i], fb.image[i]>>,
                 depth, pixel, tag)

\* rasterizer.rs 60-203: the body of the two loops for pixel i
TintedCell(fb, i, in_bounds, bary, vs, uvs, texture, uv_face, face_width, face_height, config, face_normal, tag) ==
    IF in_bounds /\ BaryInside(bary)
    THEN TintedFragment(fb, i, BaryMix(bary, vs[1][3], vs[2][3], vs[3][3]),
                        ApplyLighting(
                            sample_face_texture(texture, uv_face, face_width, face_height,
                                                BaryMix(bary, uvs[1][1], uvs[2][1], uvs[3][1]),
                                                BaryMix(bary, uvs[1][2], uvs[2][2], uvs[3][2])),
                            config, face_normal),
                        tag)
    ELSE UntouchedCell(fb, i)

TintedCells(fb, b, width, vs, uvs, texture, uv_face, face_width, face_height, config, face_normal, tag) ==
    [i \in DOMAIN fb.image |->
        TintedCell(fb, i, InBounds(b, i % width, i \div width), BaryAt(vs, i % width, i \div width),
                   vs, uvs, texture, uv_face, face_width, face_height, config, face_normal, tag)]

\* render_triangle_tinted without tint (specific_tint and tint_config None)
\* and with nearest sampling (config.bilinear_filtering false).  Every pixel
\* is visited at most once, so the two loops are a map over the pixels.
render_triangle_tinted(fb, width, height, vs, uvs, texture, uv_face, face_width, face_height, config, face_normal, tag) ==
    IF Len(vs) # 3 \/ Len(uvs) # 3 THEN fb
    ELSE MergeCells(fb,
                    TintedCells(fb, PixelBounds(vs, width, height), width, vs, uvs, texture, uv_face,
                                face_width, face_height, config, face_normal, tag),
                    tag)

\* debug.rs 126-134: a covered pixel
DebugFragment(fb, i, depth, color, tag) ==
    FragmentCell(IF DebugDepthTest(depth, fb.depth_buffer[i])
                 THEN <<depth, color>>
                 ELSE <<fb.depth_buffer[i], fb.image[i]>>,
                 depth, color, tag)

DebugCell(fb, i, in_bounds, bary, vs, color, tag) ==
    IF in_bounds /\ BaryInside(bary)
    THEN DebugFragment(fb, i, BaryMix(bary, vs[1][3], vs[2][3], vs[3][3]), color, tag)
    ELSE UntouchedCell(fb, i)

DebugCells(fb, b, width, vs, color, tag) ==
    [i \in DOMAIN fb.image |->
        DebugCell(fb, i, InBounds(b, i % width, i \div width), BaryAt(vs, i % width, i \div width),
                  vs, color, tag)]

render_triangle_debug(fb, width, height, vs, color, tag) ==
    IF Len(vs) # 3 THEN fb
    ELSE MergeCells(fb, DebugCells(fb, PixelBounds(vs, width, height), width, vs, color, tag), tag)

\* debug.rs get_debug_color; brightness levels in hundredths
get_debug_color(face_name, part_index) ==
    LET base == CASE face_name = "front"  -> <<255, 0, 0>>
                  [] face_name = "back"   -> <<0, 255, 0>>
                  [] face_name = "left"   -> <<0, 0, 255>>
                  [] face_name = "right"  -> <<255, 255, 0>>
                  [] face_name = "top"    -> <<0, 255, 255>>
                  [] face_name = "bottom" -> <<255, 0, 255>>
                  [] OTHER                -> <<128, 128, 128>>
        brightness_levels == <<100, 85, 70, 55, 80>>
        brightness == brightness_levels[(part_index % 5) + 1]
        Ch(c) == LET x == (c * brightness) \div 100 IN IF x > 255 THEN 255 ELSE x
    IN  <<Ch(base[1]), Ch(base[2]), Ch(base[3]), 255>>

(***************************************************************************)
(* renderer/face.rs and renderer/debug.rs: a face as triangles             *)
(* Triangles are named by the 0-based indices of their vertices.           *)
(***************************************************************************)
Tri(vs, t) == <<vs[t[1] + 1], vs[t[2] + 1], vs[t[3] + 1]>>

RECURSIVE TintedFan(_, _, _, _, _, _, _, _, _, _, _)
TintedFan(fb, width, height, rf, uvs, texture, uv_face, fw, fh, config, i) ==
    IF i > Len(rf.screen_vertices) - 2 THEN fb
    ELSE TintedFan(render_triangle_tinted(fb, width, height,
                                          Tri(rf.screen_vertices, <<0, i, i + 1>>),
                                          Tri(uvs, <<0, i, i + 1>>),
                                          texture, uv_face, fw, fh, config, rf.normal, <<0, i, i + 1>>),
                   width, height, rf, uvs, texture, uv_face, fw, fh, config, i + 1)

\* A lookup that falls back to a default layout entry instead of None
LayoutEntryOrDefault(shape, texture_face) ==
    IF IsSome(shape) /\ texture_face \in DOMAIN shape[1].texture_layout
    THEN shape[1].texture_layout[texture_face]
    ELSE Some([offset |-> <<0, 0>>, mirror |-> <<FALSE, FALSE>>, angle |-> 0])

\* The texture_layout entry of a face name (face.rs 28-40)
LayoutEntry(shape, texture_face) ==
    IF IsSome(shape) /\ texture_face \in DOMAIN shape[1].texture_layout
    THEN shape[1].texture_layout[texture_face]
    ELSE None

\* face.rs 50-64
FaceDims(shape, texture_face) ==
    IF IsSome(shape)
    THEN LET size == IF IsSome(shape[1].size) THEN shape[1].size[1] ELSE <<1, 1, 1>>
         IN  CASE texture_face \in {"front", "back"} -> <<size[1], size[2]>>
               [] texture_face \in {"left", "right"} -> <<size[3], size[2]>>
               [] texture_face \in {"top", "bottom"} -> <<size[1], size[3]>>
               [] OTHER -> <<1, 1>>
    ELSE <<1, 1>>

\* face.rs 50-105, with the layout entry found
TintedFace(fb, width, height, rf, uvs, tex, uv_face, dims, config) ==
    IF Len(rf.screen_vertices) >= 3 /\ Len(uvs) >= 3
    THEN TintedFan(fb, width, height, rf, uvs, tex, uv_face, dims[1], dims[2], config, 1)
    ELSE fb

render_face_to_image_tinted(fb, width, height, rf, texture, shape, config) ==
    IF ~IsSome(LayoutEntry(shape, rf.texture_face)) THEN fb
    ELSE TintedFace(fb, width, height, rf,
                    [i \in 1..Len(rf.face_data.vertices) |-> rf.face_data.vertices[i].uv],
                    IF IsSome(rf.texture) THEN rf.texture[1] ELSE texture,
                    LayoutEntry(shape, rf.texture_face)[1],
                    FaceDims(shape, rf.texture_face), config)

\* debug.rs 61-87
DebugFace(fb, width, height, vs, color) ==
    IF Len(vs) = 4
    THEN render_triangle_debug(
             render_triangle_debug(fb, width, height, Tri(vs, <<0, 1, 2>>), color, <<0, 1, 2>>),
             width, height, Tri(vs, <<0, 2, 3>>), color, <<0, 2, 3>>)
    ELSE render_triangle_debug(fb, width, height, Tri(vs, <<0, 1, 2>>), color, <<0, 1, 2>>)

render_face_to_image_debug(fb, width, height, rf) ==
    IF Len(rf.screen_vertices) < 3 THEN fb
    ELSE DebugFace(fb, width, height, rf.screen_vertices, get_debug_color(rf.texture_face, rf.part_index))

(***************************************************************************)
(* renderer/mod.rs: render_scene_internal                                  *)
(***************************************************************************)
\* A camera is [vp, view_z]: its view-projection matrix and the third row of
\* its view matrix.  calculate_depth is -(view * p).z, on a world position
\* with numerators wp over den.
calculate_depth(camera, wp, den) ==
    Rat(-(camera.view_z[1] * wp[1] + camera.view_z[2] * wp[2] + camera.view_z[3] * wp[3]
          + camera.view_z[4] * den), den)

\* mod.rs 230-250: perspective divide, viewport transform, view depth
ProjectVertex(cv, camera, output_width, output_height) ==
    LET ndc_x == Rat(cv.clip_pos[1], cv.clip_pos[4])
        ndc_y == Rat(cv.clip_pos[2], cv.clip_pos[4])
    IN  << RMul(RMul(RAdd(ndc_x, RInt(1)), Half), RInt(output_width)),
           RMul(RMul(RSub(RInt(1), ndc_y), Half), RInt(output_height)),
           calculate_depth(camera, cv.world_pos, cv.den) >>

\* A winding test that flips as soon as any axis is negative
winding_flipped_any(shape) ==
    IF IsSome(shape)
    THEN \E k \in 1..3 : shape[1].stretch[k] < 0
    ELSE FALSE

\* mod.rs 268-274
winding_flipped(shape) ==
    IF IsSome(shape)
    THEN Cardinality({k \in 1..3 : shape[1].stretch[k] < 0}) % 2 = 1
    ELSE FALSE

\* mod.rs 284
signed_area(sv) ==
    RSub(RMul(RSub(sv[2][1], sv[1][1]), RSub(sv[3][2], sv[1][2])),
         RMul(RSub(sv[3][1], sv[1][1]), RSub(sv[2][2], sv[1][2])))

\* mod.rs 263-296: TRUE when the face is skipped as back-facing
is_backfacing(shape, sv) ==
    LET is_double_sided == IF IsSome(shape) THEN shape[1].double_sided ELSE FALSE
    IN  IF is_double_sided THEN FALSE
        ELSE IF winding_flipped(shape)
             THEN signed_area(sv)[1] < 0
             ELSE signed_area(sv)[1] > 0

(***************************************************************************)
(* Inputs of the renderer                                                  *)
(***************************************************************************)
\* Output image size
Width == 4
Height == 4

\* Largest number of faces in a scene
MaxFaces == 2

\* The camera: VpOrtho, looking down -Z from the origin (depth = -z)
RenderCamera == [vp |-> VpOrtho, view_z |-> <<0, 0, 1, 0>>]

Red   == <<255, 0, 0, 255>>
Blue  == <<0, 0, 255, 255>>
Clear == <<0, 0, 0, 0>>
TexRed     == [width |-> 1, height |-> 1, pixels |-> <<Red>>]
TexBlue    == [width |-> 1, height |-> 1, pixels |-> <<Blue>>]
TexClear   == [width |-> 1, height |-> 1, pixels |-> <<Clear>>]
TexRedHole == [width |-> 2, height |-> 1, pixels |-> <<Red, Clear>>]

\* The texture argument of render_scene_internal
SceneTexture == TexRed

UvPlain == [offset |-> <<0, 0>>, mirror |-> <<FALSE, FALSE>>, angle |-> 0]

MkShape(ds, stretch, layout) ==
    [ double_sided |-> ds, stretch |-> stretch, texture_layout |-> layout, size |-> Some(<<2, 1, 1>>) ]
FrontLayout == [f \in {"front"} |-> Some(UvPlain)]
BackLayout  == [f \in {"back"} |-> Some(UvPlain)]
ShapeStd     == Some(MkShape(FALSE, <<1, 1, 1>>, FrontLayout))
ShapeDouble  == Some(MkShape(TRUE, <<1, 1, 1>>, FrontLayout))
ShapeFlipX   == Some(MkShape(FALSE, <<-1, 1, 1>>, FrontLayout))
ShapeFlipXY  == Some(MkShape(FALSE, <<-1, -1, 1>>, FrontLayout))
ShapeFlipXYZ == Some(MkShape(FALSE, <<-1, -1, -1>>, FrontLayout))
ShapeDoubleFlip == Some(MkShape(TRUE, <<-1, 1, 1>>, FrontLayout))
ShapeNoFront == Some(MkShape(FALSE, <<1, 1, 1>>, BackLayout))

PlusZ == [v |-> <<0, 0, 1>>, nan |-> FALSE]

\* World-space outlines (x, y), counter-clockwise seen from +Z unless named CW
GeoTri    == << <<-3, -3>>, <<3, -3>>, <<-3, 3>> >>
GeoTriCW  == << <<-3, -3>>, <<-3, 3>>, <<3, -3>> >>
GeoQuad   == << <<-3, -3>>, <<1, -3>>, <<1, 1>>, <<-3, 1>> >>
GeoCorner == << <<-3, -3>>, <<7, -3>>, <<-3, 7>> >>

AtZ(geo, zs) == [i \in 1..Len(geo) |-> <<geo[i][1], geo[i][2], zs[i]>>]

MkRenderable(ps, shape, tex) ==
    [ face |-> MkFace(ps, PlusZ), shape |-> shape, node_name |-> None,
      texture |-> tex, tint |-> None ]

\* The same with another cardinal name than "front"
MkRenderableNamed(ps, name, shape, tex) ==
    [ face |-> [MkFace(ps, PlusZ) EXCEPT !.texture_face = name], shape |-> shape, node_name |-> None,
      texture |-> tex, tint |-> None ]

\* Faces that overlap on screen, at different depths and opacities
StackPool ==
    { MkRenderable(AtZ(GeoTri, <<0, 0, 0>>), ShapeStd, None),
      MkRenderable(AtZ(GeoTri, <<-1, 0, -1>>), ShapeStd, Some(TexBlue)),
      MkRenderable(AtZ(GeoTri, <<-3, -3, -3>>), ShapeStd, Some(TexBlue)),
      MkRenderable(AtZ(GeoTri, <<0, 0, 0>>), ShapeStd, Some(TexClear)),
      MkRenderable(AtZ(GeoQuad, <<-2, -2, -2, -2>>), ShapeStd, Some(TexRedHole)),
      MkRenderable(AtZ(GeoCorner, <<-1, -1, -1>>), None, Some(TexBlue)),
      MkRenderable(AtZ(GeoQuad, <<0, 0, 0, 0>>), ShapeNoFront, Some(TexBlue)),
      MkRenderableNamed(AtZ(GeoTri, <<-2, -2, -2>>), "back", ShapeNoFront, Some(TexBlue)) }

\* Faces of every winding, stretch, sidedness and layout
RenderFacePool ==
    StackPool \cup
    { MkRenderable(AtZ(GeoCorner, <<-1, -1, -1>>), ShapeStd, Some(TexBlue)),
      MkRenderable(AtZ(GeoTriCW, <<-1, -1, -1>>), ShapeStd, Some(TexBlue)),
      MkRenderable(AtZ(GeoTriCW, <<-1, -1, -1>>), ShapeDouble, Some(TexBlue)),
      MkRenderable(AtZ(GeoTriCW, <<-2, -2, -2>>), ShapeFlipX, Some(TexBlue)),
      MkRenderable(AtZ(GeoTri, <<-2, -2, -2>>), ShapeFlipX, Some(TexBlue)),
      MkRenderable(AtZ(GeoTriCW, <<-2, -2, -2>>), ShapeFlipXY, Some(TexBlue)),
      MkRenderable(AtZ(GeoTri, <<-2, -2, -2>>), ShapeFlipXY, Some(TexBlue)),
      MkRenderable(AtZ(GeoTri, <<-2, -2, -2>>), ShapeFlipXYZ, Some(TexBlue)),
      MkRenderable(AtZ(GeoTri, <<-2, -2, -2>>), ShapeDoubleFlip, Some(TexBlue)),
      MkRenderable(AtZ(GeoTriCW, <<-2, -2, -2>>), None, Some(TexBlue)) }

LightOff   == [enabled |-> FALSE, light_direction |-> <<0, 0, 1>>, ambient |-> <<1, 1>>, diffuse |-> <<0, 1>>]
LightFront == [enabled |-> TRUE, light_direction |-> <<0, 0, 1>>, ambient |-> <<0, 1>>, diffuse |-> <<1, 1>>]
RenderConfigs == { [bilinear_filtering |-> FALSE, light_config |-> l] : l \in {LightOff, LightFront} }

\* Scenes of one face of any kind, and stacks of up to MaxFaces overlapping faces
Scenes == [1..1 -> RenderFacePool] \cup UNION { [1..n -> StackPool] : n \in 2..MaxFaces }

(***************************************************************************)
(* render_scene_internal as a state machine: one step per face of the      *)
(* projection loop, one step per face of the drawing loop                  *)
(***************************************************************************)
ClipIdle ==
    /\ c_face = <<>> /\ c_vp = <<>> /\ vertices = <<>> /\ c_prev = <<>>
    /\ c_plane = 0 /\ c_pc = "idle" /\ c_result = "pending"

Pixels == 0..(Width * Height - 1)

RenderInit ==
    /\ ClipIdle
    /\ TintIdle
    /\ SceneIdle
    /\ AnimIdle
    /\ GeomIdle
    /\ SkinIdle
    /\ CullIdle
    /\ MergeIdle
    /\ BoundsIdle
    /\ r_faces \in Scenes
    /\ r_debug \in BOOLEAN
    /\ r_config \in IF r_debug THEN {CHOOSE c \in RenderConfigs : ~c.light_config.enabled}
                            ELSE RenderConfigs
    /\ r_pc = "project"
    /\ r_i = 1
    /\ next_part_index = 0
    /\ render_faces = <<>>
    /\ image = [i \in Pixels |-> <<0, 0, 0, 0>>]
    /\ depth_buffer = [i \in Pixels |-> F32Max]
    /\ proj_log = <<>>
    /\ tri_log = <<>>
    /\ frag_log = [i \in Pixels |-> <<>>]

\* mod.rs 303-313: the RenderFace pushed for a face that is kept; `source`
\* is the index of the face in `faces` (history)
MakeRenderFace(rf, part_index, source, cvs, sv) ==
    [ screen_vertices |-> sv,
      texture_face |-> rf.face.texture_face,
      face_data |-> [ vertices |-> [i \in 1..Len(cvs) |->
                         [ position |-> cvs[i].world_pos,
                           den |-> cvs[i].den,
                           uv |-> <<Rat(cvs[i].uv[1], cvs[i].den), Rat(cvs[i].uv[2], cvs[i].den)>> ]],
                      texture_face |-> rf.face.texture_face ],
      shape |-> rf.shape,
      part_index |-> part_index,
      node_name |-> rf.node_name,
      texture |-> rf.texture,
      tint_gradient |-> rf.tint,
      normal |-> cvs[1].normal,
      source |-> source ]

\* mod.rs 260-314: the face is pushed unless it has fewer than 3 vertices or
\* is culled
ProjectedFace(rf, part_index, source, cvs, sv) ==
    [ clipped |-> TRUE, screen_vertices |-> sv,
      pushed |-> Len(sv) >= 3 /\ ~is_backfacing(rf.shape, sv),
      render_face |-> MakeRenderFace(rf, part_index, source, cvs, sv) ]

\* mod.rs 222-316: what one face of `faces` becomes, given the result of
\* clip_face_to_frustum
ProjectClipped(rf, part_index, source, clipped, camera, width, height) ==
    IF IsSome(clipped)
    THEN ProjectedFace(rf, part_index, source, clipped[1],
                       [i \in 1..Len(clipped[1]) |-> ProjectVertex(clipped[1][i], camera, width, height)])
    ELSE [ clipped |-> FALSE, screen_vertices |-> <<>>, pushed |-> FALSE, render_face |-> None ]

\* mod.rs 200-316: the body of the loop over `faces`
ProjectFace ==
    /\ r_pc = "project"
    /\ \E o \in { ProjectClipped(r_faces[r_i],
                                 IF IsSome(r_faces[r_i].shape) THEN next_part_index ELSE 0,
                                 r_i,
                                 clip_face_to_frustum(r_faces[r_i].face, RenderCamera.vp),
                                 RenderCamera, Width, Height) } :
          /\ render_faces' = IF o.pushed THEN Append(render_faces, o.render_face) ELSE render_faces
          /\ proj_log' = Append(proj_log, [ clipped |-> o.clipped, screen_vertices |-> o.screen_vertices,
                                            pushed |-> o.pushed ])
    /\ next_part_index' = IF IsSome(r_faces[r_i].shape) THEN next_part_index + 1 ELSE next_part_index
    /\ IF r_i = Len(r_faces)
       THEN r_pc' = "render" /\ r_i' = 1
       ELSE r_pc' = "project" /\ r_i' = r_i + 1
    /\ UNCHANGED <<r_faces, r_debug, r_config, image, depth_buffer, tri_log, frag_log, clipVars, tintVars, sceneVars, animVars, geomVars, skinVars, cullVars, mergeVars, boundsVars>>

\* The fragments of a pixel, each tagged with the face that is being drawn
TagFrags(s, face_index) ==
    [k \in 1..Len(s) |-> [ depth |-> s[k].depth, pixel |-> s[k].pixel,
                           tri |-> IF Len(s[k].tri) = 3 THEN <<face_index>> \o s[k].tri ELSE s[k].tri ]]

\* mod.rs 319-334: the body of the loop over `render_faces`
DrawFace ==
    /\ r_pc = "render"
    /\ r_i <= Len(render_faces)
    /\ \E fb \in { [image |-> image, depth_buffer |-> depth_buffer, frags |-> frag_log, tris |-> <<>>] } :
       \E out \in { IF r_debug
                    THEN render_face_to_image_debug(fb, Width, Height, render_faces[r_i])
                    ELSE render_face_to_image_tinted(fb, Width, Height, render_faces[r_i], SceneTexture,
                                                     render_faces[r_i].shape, r_config) } :
          /\ image' = out.image
          /\ depth_buffer' = out.depth_buffer
          /\ frag_log' = [i \in Pixels |-> TagFrags(out.frags[i], r_i)]
          /\ tri_log' = Append(tri_log, out.tris)
    /\ r_i' = r_i + 1
    /\ UNCHANGED <<r_faces, r_debug, r_config, r_pc, next_part_index, render_faces, proj_log, clipVars, tintVars, sceneVars, animVars, geomVars, skinVars, cullVars, mergeVars, boundsVars>>

\* mod.rs 336
RenderReturn ==
    /\ r_pc = "render"
    /\ r_i > Len(render_faces)
    /\ r_pc' = "done"
    /\ UNCHANGED <<r_faces, r_debug, r_config, r_i, next_part_index, render_faces,
                   image, depth_buffer, proj_log, tri_log, frag_log, clipVars, tintVars, sceneVars, animVars, geomVars, skinVars, cullVars, mergeVars, boundsVars>>

RenderNext == ProjectFace \/ DrawFace \/ RenderReturn

SpecRender == RenderInit /\ [][RenderNext]_vars

(***************************************************************************)
(* Properties of the clipper                                               *)
(***************************************************************************)
ClipInput == [i \in 1..Len(c_face.vertices) |-> ToClipVertex(c_face.vertices[i], c_vp)]

AllInside(vs, plane)  == \A i \in 1..Len(vs) : signed_distance(vs[i].clip_pos, plane) >= 0
AllOutside(vs, plane) == \A i \in 1..Len(vs) : signed_distance(vs[i].clip_pos, plane) < 0

\* The six planes of the frustum
FrustumPlanes == {"Near", "Left", "Right", "Bottom", "Top", "Far"}

\* The plane the last ClipStep clipped against
LastPlane == planes[c_plane]

\* Number of vertices the edge current -> next is to contribute
EdgeCount(current, next, plane) ==
    LET ci == signed_distance(current.clip_pos, plane) >= 0
        ni == signed_distance(next.clip_pos, plane) >= 0
    IN  IF ci /\ ni THEN 1 ELSE IF ci THEN 1 ELSE IF ni THEN 2 ELSE 0

NextOf(vs, i) == vs[(i % Len(vs)) + 1]

RECURSIVE EdgeOffset(_, _, _)
EdgeOffset(vs, plane, i) ==
    IF i <= 1 THEN 0
    ELSE EdgeOffset(vs, plane, i - 1) + EdgeCount(vs[i - 1], NextOf(vs, i - 1), plane)

Crossing(vs, plane, i) ==
    (signed_distance(vs[i].clip_pos, plane) >= 0) # (signed_distance(NextOf(vs, i).clip_pos, plane) >= 0)

\* |d1 - d2| < 1e-10 for the edge i of vs
TinyDenominator(vs, plane, i) ==
    LET a == vs[i]
        b == NextOf(vs, i)
    IN  Abs(signed_distance(a.clip_pos, plane) * b.den - signed_distance(b.clip_pos, plane) * a.den)
            < ClipEps * a.den * b.den

\* x is the point a + t (b - a) in clip space
IsLerpOf(x, a, b, t) ==
    \A k \in 1..4 :
        Rat(x.clip_pos[k], x.den) = Rat(LerpNum(a.clip_pos[k], a.den, b.clip_pos[k], b.den, t), a.den * b.den * t[2])

\* C3: clip_face_to_frustum returns None whenever all vertices of the face
\* lie outside one same plane and whenever clipping against some plane leaves
\* fewer than 3 vertices; whenever it returns Some the polygon has at least 3
\* vertices.
C3_RejectOrAtLeastThree ==
    /\ (c_pc = "done" /\ (\E pl \in FrustumPlanes : AllOutside(ClipInput, pl))) => c_result = "None"
    /\ (c_plane >= 1 /\ Len(vertices) < 3) => (c_pc = "done" /\ c_result = "None")
    /\ c_result = "Some" => (c_pc = "done" /\ Len(vertices) >= 3)
    /\ c_pc = "done" =>
          /\ (c_result = "Some") = IsSome(clip_face_to_frustum(c_face, c_vp))
          /\ c_result = "Some" => clip_face_to_frustum(c_face, c_vp) = Some(vertices)

\* A face that no single plane rejects is clipped away at a later plane
C3_Witness ==
    /\ c_pc = "done" /\ c_result = "None"
    /\ c_plane >= 2 /\ Len(vertices) < 3
    /\ ~(\E pl \in FrustumPlanes : AllOutside(ClipInput, pl))

\* C4 (as claimed): every vertex returned by clip_face_to_frustum has
\* clip-space w > 0.
C4_ReturnedWPositive ==
    c_result = "Some" => \A i \in 1..Len(vertices) : vertices[i].clip_pos[4] > 0

\* C5 (as claimed): clipping a polygon against a plane that all of its
\* vertices are inside returns the vertices in the input order, same first
\* vertex.
C5_SameFirstVertex ==
    (c_plane >= 1 /\ Len(c_prev) >= 3 /\ AllInside(c_prev, LastPlane)) => vertices = c_prev

\* C5 (amended): clipping a polygon against a plane that all of its vertices
\* are inside returns all of its vertices in the same cyclic order, rotated
\* by one position: output[i] is input[i+1] and the last output is input[0].
C5_RotatedByOne ==
    (c_plane >= 1 /\ Len(c_prev) >= 3 /\ AllInside(c_prev, LastPlane)) =>
        /\ Len(vertices) = Len(c_prev)
        /\ \A i \in 1..Len(c_prev) : vertices[i] = NextOf(c_prev, i)

C5_Witness ==
    /\ c_plane >= 1 /\ Len(c_prev) = 4 /\ AllInside(c_prev, LastPlane)
    /\ vertices[1] = c_prev[2] /\ vertices[4] = c_prev[1]

\* C6: clipping a triangle that lies fully inside the frustum against all six
\* planes returns the same 3 vertices (positions, UVs, normals) in the input
\* order.
C6_InsideTriangleUnchanged ==
    (c_pc = "done" /\ Len(c_face.vertices) = 3 /\ \A pl \in FrustumPlanes : AllInside(ClipInput, pl)) =>
        /\ c_result = "Some"
        /\ Len(vertices) = 3
        /\ \A i \in 1..3 :
              /\ vertices[i].den = 1
              /\ vertices[i].world_pos = c_face.vertices[i].position
              /\ vertices[i].uv = c_face.vertices[i].uv
              /\ vertices[i].normal = c_face.vertices[i].normal
              /\ vertices[i].clip_pos = ClipInput[i].clip_pos

C6_Witness ==
    /\ c_pc = "done" /\ c_result = "Some" /\ c_plane = 6
    /\ Len(c_face.vertices) = 3 /\ \A pl \in FrustumPlanes : AllInside(ClipInput, pl)
    /\ vertices = ClipInput

\* C7: for every polygon edge with exactly one endpoint inside the clipping
\* plane the clipper emits exactly one intersection vertex, with parameter t
\* in [0,1]; the intersection never fails, and t = 1/2 when the two signed
\* distances differ by less than 1e-10.
C7_OneIntersectionPerCrossing ==
    (c_plane >= 1 /\ Len(c_prev) >= 3) =>
        /\ Len(vertices) = EdgeOffset(c_prev, LastPlane, Len(c_prev) + 1)
        /\ \A i \in 1..Len(c_prev) :
              Crossing(c_prev, LastPlane, i) =>
                 LET a   == c_prev[i]
                     b   == NextOf(c_prev, i)
                     ot  == compute_intersection_t(a, b, LastPlane)
                     pos == EdgeOffset(c_prev, LastPlane, i) + 1
                 IN  /\ IsSome(ot)
                     /\ RatLe(<<0, 1>>, ot[1]) /\ RatLe(ot[1], <<1, 1>>)
                     /\ TinyDenominator(c_prev, LastPlane, i) => ot[1] = <<1, 2>>
                     /\ pos <= Len(vertices)
                     /\ IsLerpOf(vertices[pos], a, b, ot[1])
                     /\ is_inside(b, LastPlane) => (pos + 1 <= Len(vertices) /\ vertices[pos + 1] = b)

\* A crossing edge whose distances differ by less than 1e-10 was clipped
C7_Witness ==
    /\ c_plane >= 1 /\ Len(c_prev) >= 3
    /\ \E i \in 1..Len(c_prev) :
          /\ Crossing(c_prev, LastPlane, i)
          /\ TinyDenominator(c_prev, LastPlane, i)
          /\ IsLerpOf(vertices[EdgeOffset(c_prev, LastPlane, i) + 1], c_prev[i], NextOf(c_prev, i), <<1, 2>>)

\* The input is a triangle that has vertices on both sides of planes[k] and
\* all vertices inside the five other planes
StraddlesOnly(k) ==
    /\ Len(c_face.vertices) = 3
    /\ ~AllInside(ClipInput, planes[k]) /\ ~AllOutside(ClipInput, planes[k])
    /\ \A j \in (1..6) \ {k} : AllInside(ClipInput, planes[j])

\* uv (over den) lies on the segment between the UVs a (over qa) and b (over
\* qb): strictly inside it, or anywhere on it with its endpoints
UVStrictlyBetween(uv, den, a, qa, b, qb) ==
    /\ \A k \in 1..2 :
          \/ a[k] * qb < b[k] * qa /\ a[k] * den < uv[k] * qa /\ uv[k] * qb < b[k] * den
          \/ a[k] * qb > b[k] * qa /\ a[k] * den > uv[k] * qa /\ uv[k] * qb > b[k] * den
          \/ a[k] * qb = b[k] * qa /\ a[k] * den = uv[k] * qa
    /\ \E k \in 1..2 : a[k] * qb # b[k] * qa

UVBetween(uv, den, a, qa, b, qb) ==
    \A k \in 1..2 :
        \/ a[k] * den <= uv[k] * qa /\ uv[k] * qb <= b[k] * den
        \/ a[k] * den >= uv[k] * qa /\ uv[k] * qb >= b[k] * den

\* C8 (as claimed): when a triangle straddles exactly one frustum plane,
\* clipping returns at least 3 vertices and every new intersection vertex has
\* a UV strictly between the UVs of the endpoints of its edge.
C8_UVStrictlyBetween ==
    \A k \in 1..6 :
        StraddlesOnly(k) =>
            /\ c_pc = "done" => (c_result = "Some" /\ Len(vertices) >= 3)
            /\ c_plane = k =>
                  \A i \in 1..Len(c_prev) :
                      Crossing(c_prev, LastPlane, i) =>
                          LET x == vertices[EdgeOffset(c_prev, LastPlane, i) + 1]
                              a == c_prev[i]
                              b == NextOf(c_prev, i)
                          IN  UVStrictlyBetween(x.uv, x.den, a.uv, a.den, b.uv, b.den)

\* C8 (amended): when a triangle straddles exactly one frustum plane,
\* clipping returns at least 3 vertices and every new intersection vertex has
\* the UV uv1 + t (uv2 - uv1) of its edge with t in [0,1], which lies between
\* the UVs of the two endpoints, endpoints included (it equals an endpoint's
\* UV when t is 0 or 1).
C8_UVBetween ==
    \A k \in 1..6 :
        StraddlesOnly(k) =>
            /\ c_pc = "done" => (c_result = "Some" /\ Len(vertices) >= 3)
            /\ c_plane = k =>
                  /\ Len(vertices) >= 3
                  /\ \A i \in 1..Len(c_prev) :
                      Crossing(c_prev, LastPlane, i) =>
                          LET x == vertices[EdgeOffset(c_prev, LastPlane, i) + 1]
                              a == c_prev[i]
                              b == NextOf(c_prev, i)
                          IN  /\ UVBetween(x.uv, x.den, a.uv, a.den, b.uv, b.den)
                              /\ \E t \in {compute_intersection_t(a, b, LastPlane)[1]} :
                                    /\ 0 <= t[1] /\ t[1] <= t[2]
                                    /\ \A j \in 1..2 :
                                          Rat(x.uv[j], x.den)
                                              = Rat(a.uv[j] * b.den * (t[2] - t[1]) + t[1] * b.uv[j] * a.den,
                                                    a.den * b.den * t[2])

\* A straddling triangle with a vertex exactly on the plane has been clipped
C8_Witness ==
    \E k \in 1..6 :
        /\ StraddlesOnly(k) /\ c_plane = k /\ Len(vertices) >= 3
        /\ \E i \in 1..Len(c_prev) :
              /\ Crossing(c_prev, LastPlane, i)
              /\ signed_distance(c_prev[i].clip_pos, LastPlane) = 0
              /\ vertices[EdgeOffset(c_prev, LastPlane, i) + 1].uv = c_prev[i].uv

(***************************************************************************)
(* Properties of the renderer                                              *)
(***************************************************************************)
Opaque(f) == f.pixel[4] = 255

RatAbs(a) == <<Abs(a[1]), a[2]>>

C2_TransparentWritesNothing ==
    ~r_debug =>
        \A i \in Pixels :
            LET fs == frag_log[i]
                n  == Len(fs)
            IN  /\ (\A k \in 1..n : fs[k].pixel[4] = 0) =>
                       (depth_buffer[i] = F32Max /\ image[i] = <<0, 0, 0, 0>>)
                /\ (n >= 2 /\ Opaque(fs[n]) /\ \A k \in 1..(n - 1) : fs[k].pixel[4] = 0) =>
                       (depth_buffer[i] = fs[n].depth /\ image[i] = fs[n].pixel)

\* An opaque fragment was drawn behind an earlier fully transparent one
C2_Witness ==
    /\ r_pc = "done" /\ ~r_debug
    /\ \E i \in Pixels :
          LET fs == frag_log[i]
          IN  /\ Len(fs) = 2 /\ fs[1].pixel[4] = 0 /\ Opaque(fs[2])
              /\ RatLt(fs[1].depth, fs[2].depth)
              /\ image[i] = fs[2].pixel /\ depth_buffer[i] = fs[2].depth

\* The stored depth new is below the stored depth old by more than DEPTH_BIAS
LoweredBeyondBias(old, new) ==
    new # F32Max /\ (old = F32Max \/ RatLt(new, RSub(old, RInt(DEPTH_BIAS))))

\* One of the fragments the step produced at pixel i is what the step left in
\* the depth buffer and the image there, and it is not fully transparent
WrittenFragment(i) ==
    \E k \in (Len(frag_log[i]) + 1)..Len(frag_log'[i]) :
        /\ frag_log'[i][k].depth = depth_buffer'[i]
        /\ frag_log'[i][k].pixel[4] > 0
        /\ frag_log'[i][k].pixel = image'[i]

\* What a step of a textured render does to the depth of every pixel
DepthStep ==
    ~r_debug =>
        \A i \in Pixels :
            /\ \/ depth_buffer'[i] = depth_buffer[i]
               \/ LoweredBeyondBias(depth_buffer[i], depth_buffer'[i]) /\ WrittenFragment(i)
            /\ depth_buffer'[i] = F32Max
                  <=> \A k \in 1..Len(frag_log'[i]) : frag_log'[i][k].pixel[4] = 0

\* C28: in a textured render the stored depth of a pixel changes only by
\* falling by more than DEPTH_BIAS, together with the colour of the fragment
\* that lowered it, and it is f32::MAX exactly while every fragment that
\* covered the pixel was fully transparent
C28_DepthOnlyFalls == [][DepthStep]_vars

\* A pixel whose depth fell twice, and a pixel whose depth is still f32::MAX
C28_Witness ==
    /\ ~r_debug
    /\ \E i \in Pixels :
          /\ Len(frag_log[i]) = 2
          /\ frag_log[i][1].pixel[4] > 0 /\ frag_log[i][2].pixel[4] > 0
          /\ LoweredBeyondBias(frag_log[i][1].depth, frag_log[i][2].depth)
          /\ depth_buffer[i] = frag_log[i][2].depth
    /\ \E j \in Pixels : depth_buffer[j] = F32Max

\* The fan (0,1,2), (0,2,3), ..., (0,n-2,n-1) of a polygon of n vertices
FanOf(n) == [i \in 1..(n - 2) |-> <<0, i, i + 1>>]

\* C9 (as claimed): every clipped polygon of n >= 3 vertices is rasterized as
\* exactly the n-2 fan triangles (0,i,i+1), in the textured path (for a face
\* that has a texture layout entry) and in the debug path.
C9_FanTriangulation ==
    \A k \in 1..Len(tri_log) :
        LET rf == render_faces[k]
        IN  (r_debug \/ IsSome(LayoutEntry(rf.shape, rf.texture_face))) =>
                tri_log[k] = FanOf(Len(rf.screen_vertices))

NegativeAxes(shape) ==
    IF IsSome(shape) THEN Cardinality({k \in 1..3 : shape[1].stretch[k] < 0}) ELSE 0

\* C10: a face that is not double-sided is culled exactly when the signed
\* screen area of its first three vertices is > 0 with an even number of
\* negative stretch axes, or < 0 with an odd number; a double-sided face is
\* never culled.
C10_CulledExactlyWhen ==
    \A k \in 1..Len(proj_log) :
        LET e     == proj_log[k]
            shape == r_faces[k].shape
            ds    == IsSome(shape) /\ shape[1].double_sided
            sv    == e.screen_vertices
            area  == RSub(RMul(RSub(sv[2][1], sv[1][1]), RSub(sv[3][2], sv[1][2])),
                          RMul(RSub(sv[3][1], sv[1][1]), RSub(sv[2][2], sv[1][2])))
            even  == NegativeAxes(shape) % 2 = 0
        IN  (e.clipped /\ Len(sv) >= 3) =>
                /\ ~e.pushed = (~ds /\ ((area[1] > 0 /\ even) \/ (area[1] < 0 /\ ~even)))
                /\ e.pushed = (\E j \in 1..Len(render_faces) : render_faces[j].source = k)

\* A face with one negative stretch axis and negative screen area was culled
C10_Witness ==
    /\ r_pc = "done"
    /\ \E k \in 1..Len(proj_log) :
          /\ proj_log[k].clipped /\ ~proj_log[k].pushed
          /\ IsSome(r_faces[k].shape) /\ ~r_faces[k].shape[1].double_sided
          /\ NegativeAxes(r_faces[k].shape) = 1
          /\ signed_area(proj_log[k].screen_vertices)[1] < 0
          /\ render_faces = <<>>

\* The face about to be drawn by the textured path has a shape without a
\* layout entry for its cardinal name
DrawsUnmappedFace ==
    /\ r_pc = "render" /\ r_i <= Len(render_faces) /\ ~r_debug
    /\ IsSome(render_faces[r_i].shape)
    /\ render_faces[r_i].texture_face \notin DOMAIN render_faces[r_i].shape[1].texture_layout

\* The face about to be drawn by the textured path has a shape with a layout
\* entry for its cardinal name
DrawsMappedFace ==
    /\ r_pc = "render" /\ r_i <= Len(render_faces) /\ ~r_debug
    /\ IsSome(render_faces[r_i].shape)
    /\ render_faces[r_i].texture_face \in DOMAIN render_faces[r_i].shape[1].texture_layout

\* C11: a face whose shape has no texture-layout entry for the face's
\* cardinal name is skipped: drawing it changes no pixel and no depth-buffer
\* entry, rasterizes no triangle and the loop goes on to the next face
\* (no error); a face of the same shape that has an entry is drawn as its fan.
C11_UnmappedFaceSkipped ==
    [][ /\ DrawsUnmappedFace =>
             /\ image' = image /\ depth_buffer' = depth_buffer /\ frag_log' = frag_log
             /\ tri_log' = Append(tri_log, <<>>)
             /\ r_pc' = "render" /\ r_i' = r_i + 1
        /\ DrawsMappedFace =>
             /\ tri_log' = Append(tri_log, FanOf(Len(render_faces[r_i].screen_vertices)))
             /\ r_pc' = "render" /\ r_i' = r_i + 1 ]_vars

\* Two faces of one shape were drawn: the "front" one, without a layout
\* entry, left no trace; the "back" one, with an entry, shows in the image
C11_Witness ==
    /\ r_pc = "done" /\ ~r_debug /\ Len(render_faces) = 2
    /\ render_faces[1].shape = render_faces[2].shape /\ IsSome(render_faces[1].shape)
    /\ render_faces[1].texture_face \notin DOMAIN render_faces[1].shape[1].texture_layout
    /\ render_faces[2].texture_face \in DOMAIN render_faces[2].shape[1].texture_layout
    /\ tri_log = << <<>>, <<<<0, 1, 2>>>> >>
    /\ \E i \in Pixels : Len(frag_log[i]) = 1 /\ frag_log[i][1].tri[1] = 2 /\ image[i][4] = 255
    /\ \A i \in Pixels : \A k \in 1..Len(frag_log[i]) : frag_log[i][k].tri[1] # 1

\* C12 (as claimed): render_scene draws a face whose shape is None with
\* default UV coordinates: the textured path rasterizes it as its fan, it is
\* not skipped.
C12_ShapelessFaceRasterized ==
    \A k \in 1..Len(tri_log) :
        (~r_debug /\ ~IsSome(render_faces[k].shape)) =>
            tri_log[k] = FanOf(Len(render_faces[k].screen_vertices))

(***************************************************************************)
(* texture.rs: TintGradient and apply_tint                                 *)
(*                                                                         *)
(* A pixel is <<r, g, b, a>> of u8.  A grey handed to lookup is an f32,    *)
(* here an exact rational; brightness likewise.                            *)
(***************************************************************************)

White == <<255, 255, 255, 255>>

\* f32::round: half away from zero
RRound(a) ==
    IF a[1] >= 0 THEN RFloor(RAdd(a, Rat(1, 2)))
    ELSE -RFloor(RAdd(Rat(-a[1], a[2]), Rat(1, 2)))

\* f32::clamp
RClamp(a, lo, hi) == RMin(RMax(a, lo), hi)

\* texture.rs 156-170: the row at height / 2 of the image
from_image(img) ==
    [ pixels     |-> [x \in 1..img.width |-> img.pixels[(img.height \div 2) * img.width + x]],
      inverted   |-> FALSE,
      brightness |-> RInt(1) ]

\* texture.rs 172-178
solid(color) ==
    [ pixels |-> [i \in 1..256 |-> color], inverted |-> FALSE, brightness |-> RInt(1) ]

identity_exclusive_range ==
    [ pixels     |-> [i \in 1..255 |-> <<i - 1, i - 1, i - 1, 255>>],
      inverted   |-> FALSE,
      brightness |-> RInt(1) ]

\* texture.rs 180-189
identity ==
    [ pixels     |-> [i \in 1..256 |-> <<i - 1, i - 1, i - 1, 255>>],
      inverted   |-> FALSE,
      brightness |-> RInt(1) ]

with_inverted(g, inverted) == [g EXCEPT !.inverted = inverted]
with_brightness(g, brightness) == [g EXCEPT !.brightness = brightness]

\* texture.rs 268-270: the index lookup reads, counted from 0
lookup_index_truncating(g, grey) ==
    LET len == Len(g.pixels)
    IN  ClampInt(RTrunc(RClamp(RMul(grey, RInt(len - 1)), RInt(0), RInt(len - 1))), 0, len - 1)

lookup_index(g, grey) ==
    LET len == Len(g.pixels)
        x   == RClamp(RAdd(RMul(grey, RInt(len - 1)), Rat(1, 2)), RInt(0), RInt(len - 1))
    IN  IF RTrunc(x) < len - 1 THEN RTrunc(x) ELSE len - 1

\* texture.rs 263-271
lookup(g, grey) ==
    IF Len(g.pixels) = 0 THEN White
    ELSE g.pixels[lookup_index(g, grey) + 1]

\* texture.rs 275-281: the u8 grey after inversion and brightness
effective_grey(g, grey) ==
    LET e == IF g.inverted THEN 255 - grey ELSE grey
    IN  IF g.brightness # RInt(1)
        THEN RTrunc(RClamp(RInt(RRound(RMul(RInt(e), g.brightness))), RInt(0), RInt(255)))
        ELSE e

\* texture.rs 274-284
lookup_u8(g, grey) == lookup(g, Rat(effective_grey(g, grey), 255))

Min3(p) == IF p[1] <= p[2] /\ p[1] <= p[3] THEN p[1] ELSE IF p[2] <= p[3] THEN p[2] ELSE p[3]
Max3(p) == IF p[1] >= p[2] /\ p[1] >= p[3] THEN p[1] ELSE IF p[2] >= p[3] THEN p[2] ELSE p[3]

\* texture.rs 314
Luminance(p) == ((p[1] + p[2] + p[3]) \div 3) % 256

apply_tint_threshold_8(pixel, gradient) ==
    IF pixel[4] = 0 THEN pixel
    ELSE IF Max3(pixel) - Min3(pixel) <= 8
         THEN [lookup_u8(gradient, Luminance(pixel)) EXCEPT ![4] = pixel[4]]
         ELSE pixel

\* texture.rs 300-322
apply_tint(pixel, gradient) ==
    IF pixel[4] = 0 THEN pixel
    ELSE IF Max3(pixel) - Min3(pixel) <= 1
         THEN [lookup_u8(gradient, Luminance(pixel)) EXCEPT ![4] = pixel[4]]
         ELSE pixel

(***************************************************************************)
(* Inputs of the tint functions                                            *)
(***************************************************************************)

MaxDeviation == 9
MaxGradLen == 3

\* An image of n columns and two rows whose second row (the row at
\* height / 2) holds n different colours
GradientImage(n) ==
    [ width |-> n, height |-> 2,
      pixels |-> [k \in 1..(2 * n) |->
                     IF k <= n THEN Clear ELSE <<10 * (k - n), 20 * (k - n), 30 * (k - n), 255>>] ]

Brightnesses == {RInt(1), Rat(1, 2), RInt(2), RInt(-1)}

BaseGradients ==
    {identity, solid(<<200, 100, 50, 255>>)} \cup {from_image(GradientImage(n)) : n \in 0..MaxGradLen}

Gradients ==
    {with_brightness(with_inverted(g, i), b) : g \in BaseGradients, i \in BOOLEAN, b \in Brightnesses}

GreyLevels == {0, 1, 100, 127, 254, 255}
Alphas == {0, 1, 255}

\* Pure greys of every level, and pixels whose channels deviate by d
TintPixels ==
    {<<l, l, l, a>> : l \in 0..255, a \in Alphas}
    \cup {p \in UNION {{<<l + d, l, l, a>>, <<l, l + d, l + d, a>>, <<l, l, l + d, a>>} :
                          l \in GreyLevels, d \in 1..MaxDeviation, a \in Alphas} :
             Max3(p) <= 255}

\* f32 greys below 0, in [0, 1] and above 1
Greys == {Rat(n, 8) : n \in -12..20} \cup {Rat(-1000, 1), Rat(1000, 1)}

(***************************************************************************)
(* The tint functions as a state machine: a gradient is built, then one of *)
(* apply_tint, lookup, lookup_u8 is called on it                           *)
(***************************************************************************)

TintInit ==
    /\ ClipIdle
    /\ RenderIdle
    /\ SceneIdle
    /\ AnimIdle
    /\ GeomIdle
    /\ SkinIdle
    /\ CullIdle
    /\ MergeIdle
    /\ BoundsIdle
    /\ t_gradient \in Gradients
    /\ t_pixel = <<>> /\ t_out = <<>> /\ t_grey = <<>>
    /\ t_index = -1 /\ t_lookup = <<>> /\ t_pc = "start"

ApplyTint ==
    /\ t_pc = "start"
    /\ \E pixel \in TintPixels :
          /\ t_pixel' = pixel
          /\ t_out' = apply_tint(pixel, t_gradient)
    /\ t_pc' = "applied"
    /\ UNCHANGED <<t_gradient, t_grey, t_index, t_lookup, clipVars, renderVars, sceneVars, animVars, geomVars, skinVars, cullVars, mergeVars, boundsVars>>

\* What a call of lookup leaves behind
LookupCall(grey) ==
    /\ t_grey' = grey
    /\ t_index' = IF Len(t_gradient.pixels) = 0 THEN -1 ELSE lookup_index(t_gradient, grey)
    /\ t_lookup' = lookup(t_gradient, grey)
    /\ t_pc' = "looked"
    /\ UNCHANGED <<t_gradient, t_pixel, t_out, clipVars, renderVars, sceneVars, animVars, geomVars, skinVars, cullVars, mergeVars, boundsVars>>

Lookup ==
    /\ t_pc = "start"
    /\ \E grey \in Greys : LookupCall(grey)

LookupU8 ==
    /\ t_pc = "start"
    /\ \E grey \in 0..255 : LookupCall(Rat(effective_grey(t_gradient, grey), 255))

TintNext == ApplyTint \/ Lookup \/ LookupU8

SpecTint == TintInit /\ [][TintNext]_vars

(***************************************************************************)
(* Properties of the tint functions                                        *)
(***************************************************************************)

Deviation(p) == Max3(p) - Min3(p)

\* The gradient's colour for the pixel's luminance, with the pixel's alpha
Recoloured(pixel, g) ==
    LET c == lookup_u8(g, Luminance(pixel))
    IN  <<c[1], c[2], c[3], pixel[4]>>

C14_TintedUpToEight ==
    (t_pc = "applied" /\ t_pixel[4] # 0) =>
        t_out = IF Deviation(t_pixel) <= 8
                THEN Recoloured(t_pixel, t_gradient)
                ELSE t_pixel

NearGrey == t_pc = "applied" /\ t_gradient = identity /\ t_pixel[4] > 0

\* C15 (as claimed): a non-transparent pixel of deviation at most 1 tinted
\* through the identity gradient comes back as the same pixel.
C15_IdentityKeepsNearGrey ==
    (NearGrey /\ Deviation(t_pixel) <= 1) => t_out = t_pixel

\* C15 (amended): a non-transparent pixel with R = G = B, of any grey level
\* and any alpha above 0, tinted through the identity gradient comes back as
\* the same pixel.
C15_IdentityKeepsPureGrey ==
    (NearGrey /\ Deviation(t_pixel) = 0) => t_out = t_pixel

C15_Witness ==
    /\ NearGrey
    /\ t_pixel = <<254, 254, 254, 1>>
    /\ t_out = t_pixel

IDENTITY == <<<<1, 0, 0, 0>>, <<0, 1, 0, 0>>, <<0, 0, 1, 0>>, <<0, 0, 0, 1>>>>

\* glam Mat4 * Mat4
MatMul(a, b) ==
    [i \in 1..4 |-> [j \in 1..4 |->
        a[i][1] * b[1][j] + a[i][2] * b[2][j] + a[i][3] * b[3][j] + a[i][4] * b[4][j]]]

\* glam Mat4::from_translation
from_translation(v) ==
    <<<<1, 0, 0, v[1]>>, <<0, 1, 0, v[2]>>, <<0, 0, 1, v[3]>>, <<0, 0, 0, 1>>>>

\* math.rs 7-9 and glam Mat3::from_quat: the rotation of q.normalize().  With
\* n2 = |q|^2 the entries are polynomials of q divided by n2; the orientations
\* of the model are multiples of Hurwitz units, for which the division is exact.
quat_from_blockymodel(q) ==
    LET x == q[1]  y == q[2]  z == q[3]  w == q[4]
        n2 == x * x + y * y + z * z + w * w
    IN  << <<(n2 - 2 * (y * y + z * z)) \div n2, (2 * (x * y - w * z)) \div n2, (2 * (x * z + w * y)) \div n2>>,
           <<(2 * (x * y + w * z)) \div n2, (n2 - 2 * (x * x + z * z)) \div n2, (2 * (y * z - w * x)) \div n2>>,
           <<(2 * (x * z - w * y)) \div n2, (2 * (y * z + w * x)) \div n2, (n2 - 2 * (x * x + y * y)) \div n2>> >>

\* math.rs 26-32: Mat4::from_scale_rotation_translation
build_transform_matrix(position, rotation, scale) ==
    LET r == quat_from_blockymodel(rotation)
    IN  [i \in 1..4 |->
            IF i = 4 THEN <<0, 0, 0, 1>>
            ELSE <<r[i][1] * scale[1], r[i][2] * scale[2], r[i][3] * scale[3], position[i]>>]

\* math.rs 35-44
build_transform_with_offset(position, rotation, scale, offset) ==
    MatMul(build_transform_matrix(position, rotation, scale), from_translation(offset))

\* math.rs 47-49
multiply_transforms(a, b) == MatMul(a, b)

\* scene.rs 247-257
multiply_quaternions(q1, q2) ==
    << q1[4] * q2[1] + q1[1] * q2[4] + q1[2] * q2[3] - q1[3] * q2[2],
       q1[4] * q2[2] - q1[1] * q2[3] + q1[2] * q2[4] + q1[3] * q2[1],
       q1[4] * q2[3] + q1[1] * q2[2] - q1[2] * q2[1] + q1[3] * q2[4],
       q1[4] * q2[4] - q1[1] * q2[1] - q1[2] * q2[2] - q1[3] * q2[3] >>

\* scene.rs 166-181
calculate_shape_y_bounds(shape) ==
    IF shape.shape_type # "Box" THEN None
    ELSE IF ~IsSome(shape.size) THEN None
    ELSE Some(<<shape.offset[2] - shape.size[1][2] * Abs(shape.stretch[2]),
                shape.offset[2] + shape.size[1][2] * Abs(shape.stretch[2])>>)

calculate_y_overlap_unfloored(parent_shape, child_node) ==
    IF ~IsSome(calculate_shape_y_bounds(parent_shape)) THEN 0
    ELSE IF ~IsSome(child_node.shape) THEN 0
    ELSE IF ~IsSome(calculate_shape_y_bounds(child_node.shape[1])) THEN 0
    ELSE child_node.position[2] + calculate_shape_y_bounds(child_node.shape[1])[1][2]
             - calculate_shape_y_bounds(parent_shape)[1][1]

\* scene.rs 184-206
calculate_y_overlap(parent_shape, child_node) ==
    IF ~IsSome(calculate_shape_y_bounds(parent_shape)) THEN 0
    ELSE IF ~IsSome(child_node.shape) THEN 0
    ELSE IF ~IsSome(calculate_shape_y_bounds(child_node.shape[1])) THEN 0
    ELSE LET overlap == child_node.position[2] + calculate_shape_y_bounds(child_node.shape[1])[1][2]
                            - calculate_shape_y_bounds(parent_shape)[1][1]
         IN  IF overlap > 0 THEN overlap ELSE 0

\* scene.rs 260-297
calculate_joint_spacing_legacy(parent_name, child_name, config) ==
    IF parent_name[1] # "" /\ child_name[1] # "" /\ parent_name[1] # child_name[1] THEN 0
    ELSE IF parent_name[2] = "Pelvis" /\ child_name[2] = "Thigh" THEN config.pelvis_to_thigh
    ELSE IF parent_name[2] = "Thigh" /\ child_name[2] = "Calf" THEN config.thigh_to_calf
    ELSE IF parent_name[2] = "Calf" /\ child_name[2] = "Foot" THEN config.calf_to_foot
    ELSE 0

\* scene.rs 209-243
calculate_joint_spacing(parent_node, child_node, config) ==
    IF ~IsSome(config) THEN 0
    ELSE IF ~config[1].enabled THEN 0
    ELSE IF ~IsSome(parent_node) THEN 0
    ELSE IF <<parent_node[1].name, child_node.name>> \in DOMAIN config[1].manual_overrides
         THEN config[1].manual_overrides[<<parent_node[1].name, child_node.name>>]
    ELSE IF config[1].auto_detect
         THEN IF ~IsSome(parent_node[1].shape) THEN 0
              ELSE calculate_y_overlap(parent_node[1].shape[1], child_node) + config[1].extra_spacing
    ELSE calculate_joint_spacing_legacy(parent_node[1].name, child_node.name, config[1])

\* scene.rs 306-314: the deltas the pose holds for the node
PoseDeltas(node, pose) ==
    IF IsSome(pose) /\ node.name \in DOMAIN pose[1].node_poses
    THEN pose[1].node_poses[node.name]
    ELSE [position_delta |-> None, orientation_delta |-> None]

node_transform_with_shape(node, deltas) ==
    build_transform_with_offset(
        node.position, node.orientation,
        IF IsSome(node.shape) THEN node.shape[1].stretch ELSE <<1, 1, 1>>,
        IF IsSome(node.shape) THEN node.shape[1].offset ELSE <<0, 0, 0>>)

\* scene.rs 316-341
node_transform(node, deltas) ==
    build_transform_with_offset(
        IF IsSome(deltas.position_delta)
        THEN [i \in 1..3 |-> node.position[i] + deltas.position_delta[1][i]]
        ELSE node.position,
        IF IsSome(deltas.orientation_delta)
        THEN multiply_quaternions(node.orientation, deltas.orientation_delta[1])
        ELSE node.orientation,
        <<1, 1, 1>>,
        <<0, 0, 0>>)

\* scene.rs 348-352
apply_joint_spacing(world_transform, spacing) ==
    IF spacing > 0
    THEN MatMul(world_transform, from_translation(<<0, -spacing, 0>>))
    ELSE world_transform

world_transform_spacing_always(node, parent_transform, parent_node, config, pose) ==
    apply_joint_spacing(
        multiply_transforms(parent_transform, node_transform(node, PoseDeltas(node, pose))),
        calculate_joint_spacing(parent_node, node, config))

\* scene.rs 343-353
world_transform(node, parent_transform, parent_node, config, pose) ==
    IF ~IsSome(pose)
    THEN apply_joint_spacing(
             multiply_transforms(parent_transform, node_transform(node, PoseDeltas(node, pose))),
             calculate_joint_spacing(parent_node, node, config))
    ELSE multiply_transforms(parent_transform, node_transform(node, PoseDeltas(node, pose)))

\* scene.rs 370-375
child_parent_transform(node, world) ==
    MatMul(world, from_translation(IF IsSome(node.shape) THEN node.shape[1].offset ELSE <<0, 0, 0>>))

\* scene.rs 355-363, 383-390: the SceneNode, its children left to the arena
SceneNodeOf(node, world) ==
    [ name       |-> node.name,
      transform  |-> world,
      shape      |-> IF IsSome(node.shape) /\ node.shape[1].visible THEN node.shape ELSE None,
      parent     |-> node.parent,
      texture_id |-> None ]

(***************************************************************************)
(* Inputs of the scene builder                                             *)
(***************************************************************************)

MaxNodes == 3

QuatIdentity == <<0, 0, 0, 1>>

BoxShape(offset, size, stretch, visible) ==
    [ offset |-> offset, stretch |-> stretch, shape_type |-> "Box",
      size |-> Some(size), visible |-> visible ]

MkNode(name, position, orientation, shape) ==
    [ name |-> name, position |-> position, orientation |-> orientation,
      shape |-> shape, parent |-> 0 ]

NodePelvis == MkNode(<<"", "Pelvis">>, <<0, 20, 0>>, QuatIdentity,
                     Some(BoxShape(<<0, 2, 0>>, <<8, 6, 4>>, <<1, 1, 1>>, TRUE)))
NodeThigh  == MkNode(<<"R", "Thigh">>, <<-2, -6, 0>>, <<1, 1, 1, 1>>,
                     Some(BoxShape(<<0, -3, 1>>, <<2, 4, 2>>, <<1, 2, 1>>, TRUE)))
NodeCalfL  == MkNode(<<"L", "Calf">>, <<0, -20, 0>>, <<1, 0, 0, 0>>,
                     Some(BoxShape(<<1, 0, 0>>, <<2, 2, 2>>, <<1, -1, 1>>, FALSE)))
NodeCalfR  == MkNode(<<"R", "Calf">>, <<1, -3, 1>>, <<0, 0, 0, 2>>, None)

NodePool == {NodePelvis, NodeThigh, NodeCalfL, NodeCalfR}

RECURSIVE IsAncestorOrSelf(_, _, _)
IsAncestorOrSelf(pv, a, j) ==
    IF j = 0 THEN FALSE ELSE j = a \/ IsAncestorOrSelf(pv, a, pv[j])

\* The parent indices of a forest of n nodes listed depth first
ParentVectors(n) ==
    {pv \in [1..n -> 0..(n - 1)] :
        /\ pv[1] = 0
        /\ \A i \in 2..n : pv[i] = 0 \/ IsAncestorOrSelf(pv, pv[i], i - 1)}

\* Forests of up to MaxNodes different nodes of the pool
Models ==
    UNION {{[i \in 1..n |-> [pool[i] EXCEPT !.parent = pv[i]]] :
               pool \in {f \in [1..n -> NodePool] : \A i, j \in 1..n : f[i] = f[j] => i = j},
               pv \in ParentVectors(n)} : n \in 1..MaxNodes}

\* scene.rs 50-62: JointSpacingConfig::default (12.0 and 10.0 units)
DefaultConfig ==
    [ enabled |-> FALSE, auto_detect |-> TRUE, extra_spacing |-> 0, manual_overrides |-> <<>>,
      pelvis_to_thigh |-> 0, thigh_to_calf |-> 24, calf_to_foot |-> 20 ]

\* scene.rs 75-82
auto_with_gap(extra_spacing) ==
    [DefaultConfig EXCEPT !.enabled = TRUE, !.auto_detect = TRUE, !.extra_spacing = extra_spacing]

\* scene.rs 85-89
with_override(config, parent_name, child_name, spacing) ==
    [config EXCEPT !.manual_overrides = (<<parent_name, child_name>> :> spacing) @@ @]

ExtraSpacings == {-4, 0, 2}

SpacingConfigs ==
    {None, Some(DefaultConfig), Some([DefaultConfig EXCEPT !.enabled = TRUE, !.auto_detect = FALSE]),
     Some(with_override(auto_with_gap(0), <<"", "Pelvis">>, <<"R", "Thigh">>, 5))}
    \cup {Some(auto_with_gap(e)) : e \in ExtraSpacings}

EmptyPose == [node_poses |-> <<>>]
ThighPose ==
    [node_poses |-> (<<"R", "Thigh">> :> [position_delta |-> Some(<<0, 1, 0>>),
                                          orientation_delta |-> Some(<<1, 0, 0, 0>>)])]
PelvisPose ==
    [node_poses |-> (<<"", "Pelvis">> :> [position_delta |-> Some(<<2, 0, 0>>),
                                          orientation_delta |-> None])]

\* The (config, pose) arguments of the three constructors of SceneGraph
Setups ==
    {<<c, None>> : c \in SpacingConfigs}
    \cup {<<Some(auto_with_gap(2)), Some(p)>> : p \in {EmptyPose, ThighPose, PelvisPose}}
    \cup {<<None, Some(ThighPose)>>, <<Some(DefaultConfig), Some(EmptyPose)>>}

(***************************************************************************)
(* SceneGraph::from_blockymodel_with_config / _with_pose as a state        *)
(* machine: one step per call of build_scene_node, in the order of the     *)
(* recursion                                                               *)
(***************************************************************************)

SceneInit ==
    /\ ClipIdle
    /\ RenderIdle
    /\ TintIdle
    /\ AnimIdle
    /\ GeomIdle
    /\ SkinIdle
    /\ CullIdle
    /\ MergeIdle
    /\ BoundsIdle
    /\ s_model \in Models
    /\ \E setup \in Setups : s_config = setup[1] /\ s_pose = setup[2]
    /\ s_nodes = <<>> /\ s_cpt = <<>> /\ s_pc = "build"

BuildNode ==
    /\ s_pc = "build"
    /\ Len(s_nodes) < Len(s_model)
    /\ \E node \in {s_model[Len(s_nodes) + 1]} :
       \E world \in {world_transform(node,
                                     IF node.parent = 0 THEN IDENTITY ELSE s_cpt[node.parent],
                                     IF node.parent = 0 THEN None ELSE Some(s_model[node.parent]),
                                     s_config, s_pose)} :
          /\ s_nodes' = Append(s_nodes, SceneNodeOf(node, world))
          /\ s_cpt' = Append(s_cpt, child_parent_transform(node, world))
    /\ UNCHANGED <<s_model, s_config, s_pose, s_pc, clipVars, renderVars, tintVars, animVars, geomVars, skinVars, cullVars, mergeVars, boundsVars>>

SceneReturn ==
    /\ s_pc = "build"
    /\ Len(s_nodes) = Len(s_model)
    /\ s_pc' = "done"
    /\ UNCHANGED <<s_model, s_config, s_pose, s_nodes, s_cpt, clipVars, renderVars, tintVars, animVars, geomVars, skinVars, cullVars, mergeVars, boundsVars>>

SceneNext == BuildNode \/ SceneReturn

SpecScene == SceneInit /\ [][SceneNext]_vars

(***************************************************************************)
(* Properties of the scene builder                                         *)
(***************************************************************************)

ParentOf(i) == s_model[i].parent

\* The stored transform of the parent, the identity for a root
ParentStored(i) == IF ParentOf(i) = 0 THEN IDENTITY ELSE s_nodes[ParentOf(i)].transform

\* The offset of the parent's shape, zero for a root or a parent without shape
ParentOffset(i) ==
    IF ParentOf(i) = 0 \/ ~IsSome(s_model[ParentOf(i)].shape) THEN <<0, 0, 0>>
    ELSE s_model[ParentOf(i)].shape[1].offset

\* Parent's stored transform * translate(parent's shape offset) * local
Placed(i, local) == MatMul(MatMul(ParentStored(i), from_translation(ParentOffset(i))), local)

SpacingEnabled == IsSome(s_config) /\ s_config[1].enabled

\* C17: with no pose and joint spacing disabled, the stored transform of every
\* scene node is its parent's stored transform (the identity for a root)
\* times the translation by the parent's shape offset (zero without shape)
\* times the node's own position/orientation transform; no stretch and not
\* the node's own shape offset enters it.
C17_StoredTransform ==
    (~IsSome(s_pose) /\ ~SpacingEnabled) =>
        \A i \in 1..Len(s_nodes) :
            s_nodes[i].transform =
                Placed(i, build_transform_matrix(s_model[i].position, s_model[i].orientation, <<1, 1, 1>>))

C17_Witness ==
    /\ s_pc = "done" /\ ~IsSome(s_pose) /\ ~SpacingEnabled
    /\ Len(s_nodes) = 3
    /\ s_model[1] = NodePelvis
    /\ s_model[2] = [NodeThigh EXCEPT !.parent = 1]
    /\ s_model[3] = [NodeCalfR EXCEPT !.parent = 2]
    /\ s_nodes[2].transform = <<<<0, 0, 1, -2>>, <<1, 0, 0, 16>>, <<0, 1, 0, 0>>, <<0, 0, 0, 1>>>>
    /\ s_nodes[3].transform = Placed(3, from_translation(<<1, -3, 1>>))
    /\ s_nodes[3].transform[2][4] # s_nodes[2].transform[2][4]

\* The node's transform when no spacing shift is applied to it
Unshifted(i) == Placed(i, node_transform(s_model[i], PoseDeltas(s_model[i], s_pose)))

\* C18: when a pose is supplied (with or without an entry for the node), or
\* the spacing policy is absent or disabled, no node's transform contains a
\* spacing shift: a node is shifted only with no pose and an enabled policy.
C18_SpacingOnlyWithoutPose ==
    (IsSome(s_pose) \/ ~SpacingEnabled) =>
        \A i \in 1..Len(s_nodes) : s_nodes[i].transform = Unshifted(i)

C18_Witness ==
    /\ s_pc = "done"
    /\ s_pose = Some(EmptyPose) /\ s_config = Some(auto_with_gap(2))
    /\ Len(s_nodes) = 2
    /\ s_model[1] = NodePelvis
    /\ s_model[2] = [NodeThigh EXCEPT !.parent = 1]
    /\ calculate_joint_spacing(Some(s_model[1]), s_model[2], s_config) = 5
    /\ s_nodes[2].transform = Unshifted(2)

\* A box child of a box parent under auto-detected spacing with no pose and
\* no manual override for the pair
AutoSpacedBox(i) ==
    /\ ~IsSome(s_pose) /\ SpacingEnabled /\ s_config[1].auto_detect
    /\ ParentOf(i) # 0
    /\ <<s_model[ParentOf(i)].name, s_model[i].name>> \notin DOMAIN s_config[1].manual_overrides
    /\ IsSome(s_model[i].shape) /\ s_model[i].shape[1].shape_type = "Box"
    /\ IsSome(s_model[ParentOf(i)].shape) /\ s_model[ParentOf(i)].shape[1].shape_type = "Box"

\* max(0, child_top_in_parent_space - parent_bottom) + extra_spacing
ClaimedSpacing(i) ==
    LET child  == s_model[i]
        parent == s_model[ParentOf(i)].shape[1]
        top    == child.position[2] + child.shape[1].offset[2]
                      + child.shape[1].size[1][2] * Abs(child.shape[1].stretch[2])
        bottom == parent.offset[2] - parent.size[1][2] * Abs(parent.stretch[2])
    IN  (IF top - bottom > 0 THEN top - bottom ELSE 0) + s_config[1].extra_spacing

RFmod(a, d) ==
    LET q == IF a[1] >= 0 THEN a[1] \div (a[2] * d) ELSE -((-a[1]) \div (a[2] * d))
    IN  RSub(a, RInt(q * d))

\* animation.rs 151-159: min_by gives the first least time, max_by the last greatest
first_kf(keyframes) ==
    CHOOSE i \in 1..Len(keyframes) :
        /\ \A j \in 1..Len(keyframes) : keyframes[i].time <= keyframes[j].time
        /\ \A j \in 1..(i - 1) : keyframes[j].time > keyframes[i].time
last_kf(keyframes) ==
    CHOOSE i \in 1..Len(keyframes) :
        /\ \A j \in 1..Len(keyframes) : keyframes[j].time <= keyframes[i].time
        /\ \A j \in (i + 1)..Len(keyframes) : keyframes[j].time < keyframes[i].time

\* animation.rs 172-177: the index of `before` after the loop, 0 for None
BeforeIndex(keyframes, time) ==
    LET s == {i \in 1..Len(keyframes) : RatLe(RInt(keyframes[i].time), time)}
    IN  IF s = {} THEN 0
        ELSE CHOOSE i \in s : \A j \in s :
                 \/ keyframes[j].time < keyframes[i].time
                 \/ keyframes[j].time = keyframes[i].time /\ i <= j

\* animation.rs 179-183: the index of `after` after the loop, 0 for None
AfterIndex(keyframes, time) ==
    LET s == {i \in 1..Len(keyframes) : RatLt(time, RInt(keyframes[i].time))}
    IN  IF s = {} THEN 0
        ELSE CHOOSE i \in s : \A j \in s :
                 \/ keyframes[j].time > keyframes[i].time
                 \/ keyframes[j].time = keyframes[i].time /\ i <= j

\* animation.rs 131-193: <<before, after, is_wrapped>>
find_surrounding_keyframes_with_wrap(keyframes, time, duration) ==
    IF Len(keyframes) = 0 THEN <<None, None, FALSE>>
    ELSE IF Len(keyframes) = 1 THEN <<Some(keyframes[1]), None, FALSE>>
    ELSE IF \/ RatLt(time, RInt(keyframes[first_kf(keyframes)].time))
            \/ RatLt(RInt(keyframes[last_kf(keyframes)].time), time)
            \/ BeforeIndex(keyframes, time) = 0
            \/ AfterIndex(keyframes, time) = 0
         THEN <<Some(keyframes[last_kf(keyframes)]), Some(keyframes[first_kf(keyframes)]), TRUE>>
    ELSE <<Some(keyframes[BeforeIndex(keyframes, time)]), Some(keyframes[AfterIndex(keyframes, time)]), FALSE>>

\* animation.rs 196-222; the times are integers and the frames halves, so
\* |range| < 0.0001 is range = 0
calculate_interpolation_factor_wrapped(t1, t2, current, duration, is_wrapped) ==
    IF is_wrapped
    THEN IF t2 + duration - t1 = 0 THEN RInt(0)
         ELSE RClamp(RDiv(RSub(IF RatLt(current, RInt(t1)) THEN RAdd(current, RInt(duration)) ELSE current,
                               RInt(t1)),
                          RInt(t2 + duration - t1)),
                     RInt(0), RInt(1))
    ELSE IF t2 - t1 = 0 THEN RInt(0)
         ELSE RClamp(RDiv(RSub(current, RInt(t1)), RInt(t2 - t1)), RInt(0), RInt(1))

\* animation.rs 233-235
smoothstep(t) == RMul(RMul(t, t), RSub(RInt(3), RMul(RInt(2), t)))

\* animation.rs 224-230
apply_interpolation_curve(t, interp_type) ==
    IF interp_type = "Step" THEN RInt(0)
    ELSE IF interp_type = "Linear" THEN t
    ELSE smoothstep(t)

\* animation.rs 238-244
lerp_vector3(a, b, t) == [i \in 1..3 |-> RAdd(RInt(a[i]), RMul(RInt(b[i] - a[i]), t))]

\* animation.rs 247-297: the term slerp(a, b, t); slerp(a, b, 0) is a, written
\* as the term slerp(a, a, 0)
slerp_quaternion(a, b, t) ==
    IF t = RInt(0) THEN <<a, a, RInt(0)>>
    ELSE <<a, b, t>>

\* animation.rs 86-94, 115-123: the interpolation factor of a pair of keyframes
KeyframeFactor(kf1, kf2, frame, duration, is_wrapped) ==
    apply_interpolation_curve(
        calculate_interpolation_factor_wrapped(kf1.time, kf2.time, frame, duration, is_wrapped),
        kf2.interpolation_type)

\* animation.rs 72-99
PositionOf(found, frame, duration) ==
    IF IsSome(found[1]) /\ IsSome(found[2])
    THEN Some(lerp_vector3(found[1][1].delta, found[2][1].delta,
                           KeyframeFactor(found[1][1], found[2][1], frame, duration, found[3])))
    ELSE IF IsSome(found[1]) THEN Some([i \in 1..3 |-> RInt(found[1][1].delta[i])])
    ELSE IF IsSome(found[2]) THEN Some([i \in 1..3 |-> RInt(found[2][1].delta[i])])
    ELSE None

sample_position_keyframes(keyframes, frame, duration) ==
    IF Len(keyframes) = 0 THEN None
    ELSE PositionOf(find_surrounding_keyframes_with_wrap(keyframes, frame, duration), frame, duration)

\* animation.rs 101-128
OrientationOf(found, frame, duration) ==
    IF IsSome(found[1]) /\ IsSome(found[2])
    THEN Some(slerp_quaternion(found[1][1].delta, found[2][1].delta,
                               KeyframeFactor(found[1][1], found[2][1], frame, duration, found[3])))
    ELSE IF IsSome(found[1]) THEN Some(<<found[1][1].delta, found[1][1].delta, RInt(0)>>)
    ELSE IF IsSome(found[2]) THEN Some(<<found[2][1].delta, found[2][1].delta, RInt(0)>>)
    ELSE None

sample_orientation_keyframes(keyframes, frame, duration) ==
    IF Len(keyframes) = 0 THEN None
    ELSE OrientationOf(find_surrounding_keyframes_with_wrap(keyframes, frame, duration), frame, duration)

\* animation.rs 65-70
sample_node_animation(node_anim, frame, duration) ==
    [ position_delta    |-> sample_position_keyframes(node_anim.position, frame, duration),
      orientation_delta |-> sample_orientation_keyframes(node_anim.orientation, frame, duration) ]

\* animation.rs 47-52
wrapped_frame(animation, frame) ==
    IF animation.duration > 0 THEN RFmod(frame, animation.duration) ELSE RInt(0)

\* animation.rs 43-63
sample_animation(animation, frame) ==
    LET sampled == [n \in DOMAIN animation.node_animations |->
                       sample_node_animation(animation.node_animations[n],
                                             wrapped_frame(animation, frame), animation.duration)]
    IN  [node_poses |->
            [n \in {m \in DOMAIN sampled : IsSome(sampled[m].position_delta)
                                              \/ IsSome(sampled[m].orientation_delta)} |-> sampled[n]]]

(***************************************************************************)
(* Inputs of the animation sampler                                         *)
(***************************************************************************)

MaxFrame == 6
MaxLoops == 2

Kf(time, delta, interpolation_type) ==
    [time |-> time, delta |-> delta, interpolation_type |-> interpolation_type]

PositionTracks ==
    { <<>>,
      <<Kf(0, <<2, 0, 0>>, "Linear")>>,
      <<Kf(1, <<0, 0, 0>>, "Linear"), Kf(3, <<4, 0, 0>>, "Linear")>>,
      <<Kf(3, <<0, 4, 0>>, "Smooth"), Kf(0, <<0, 0, 0>>, "Step"), Kf(4, <<0, 0, 8>>, "Linear")>> }

OrientationTracks ==
    { <<>>,
      <<Kf(0, <<0, 0, 0, 1>>, "Linear"), Kf(2, <<1, 0, 0, 0>>, "Smooth")>> }

NodeAnimations ==
    {[position |-> p, orientation |-> o] : p \in PositionTracks, o \in OrientationTracks}

Durations == {0, 4, 5}

Animations ==
    {[duration |-> d, node_animations |-> (<<"R", "Thigh">> :> na)] : d \in Durations, na \in NodeAnimations}
    \cup {[duration |-> 4,
           node_animations |-> (<<"", "Pelvis">> :> [position |-> <<>>, orientation |-> <<>>])
                                @@ (<<"R", "Thigh">> :> na)] : na \in NodeAnimations}

\* Frames in halves, negative ones included
Frames == {Rat(n, 2) : n \in (-2 * MaxFrame)..(2 * MaxFrame)}

(***************************************************************************)
(* Two calls of sample_animation on one animation: at frame f and at       *)
(* frame f + k * duration                                                  *)
(***************************************************************************)

AnimInit ==
    /\ ClipIdle
    /\ RenderIdle
    /\ TintIdle
    /\ SceneIdle
    /\ GeomIdle
    /\ SkinIdle
    /\ CullIdle
    /\ MergeIdle
    /\ BoundsIdle
    /\ a_anim \in Animations
    /\ a_frame \in Frames
    /\ a_k \in (-MaxLoops)..MaxLoops
    /\ a_poses = <<>>
    /\ a_pc = "start"

Sample ==
    /\ a_pc = "start"
    /\ a_poses' = <<sample_animation(a_anim, a_frame)>>
    /\ a_pc' = "sampled"
    /\ UNCHANGED <<a_anim, a_frame, a_k, clipVars, renderVars, tintVars, sceneVars, geomVars, skinVars, cullVars, mergeVars, boundsVars>>

SampleShifted ==
    /\ a_pc = "sampled"
    /\ a_poses' = Append(a_poses, sample_animation(a_anim, RAdd(a_frame, RInt(a_k * a_anim.duration))))
    /\ a_pc' = "done"
    /\ UNCHANGED <<a_anim, a_frame, a_k, clipVars, renderVars, tintVars, sceneVars, geomVars, skinVars, cullVars, mergeVars, boundsVars>>

AnimNext == Sample \/ SampleShifted

SpecAnim == AnimInit /\ [][AnimNext]_vars

(***************************************************************************)
(* Properties of the animation sampler                                     *)
(***************************************************************************)

\* C20 (as claimed): for an animation of duration D > 0, sampling at frame f
\* and at frame f + k * D gives the same pose, for every integer k and every
\* f, negative frames included.
C20_SamplingLoops ==
    (a_pc = "done" /\ a_anim.duration > 0) => a_poses[1] = a_poses[2]

(***************************************************************************)
(* geometry.rs: the faces of a Box or Quad shape                           *)
(***************************************************************************)

\* glam Mat4::from_scale
from_scale(s) ==
    <<<<s[1], 0, 0, 0>>, <<0, s[2], 0, 0>>, <<0, 0, s[3], 0>>, <<0, 0, 0, 1>>>>

\* glam Mat4::transform_point3: the affine image of a point (w = 1)
transform_point3(m, p) ==
    [i \in 1..3 |-> m[i][1] * p[1] + m[i][2] * p[2] + m[i][3] * p[3] + m[i][4]]

\* glam Mat4::transform_vector3: the image of a direction (w = 0), which
\* leaves the translation out and nothing else
transform_vector3(m, v) ==
    [i \in 1..3 |-> m[i][1] * v[1] + m[i][2] * v[2] + m[i][3] * v[3]]

\* The integer square root
ISqrt(n) == CHOOSE r \in 0..n : r * r <= n /\ (r + 1) * (r + 1) > n

\* glam Vec3::normalize: v / |v|, which is NaN in every component for the
\* zero vector.  The vectors normalized here are images of axis vectors under
\* signed permutations with scale factors, for which the division is exact.
normalize(v) ==
    LET l2 == v[1] * v[1] + v[2] * v[2] + v[3] * v[3]
    IN  IF l2 = 0 THEN NaNNormal
        ELSE [v |-> [i \in 1..3 |-> v[i] \div ISqrt(l2)], nan |-> FALSE]

\* glam Neg for Vec3: the negation of NaN is NaN
NegNormal(n) == [v |-> [i \in 1..3 |-> -n.v[i]], nan |-> n.nan]

\* geometry.rs 327-354
create_face_with_uvs(positions, uvs, normal, texture_face, transform) ==
    [ vertices |-> [i \in 1..Len(positions) |->
          [ position |-> transform_point3(transform, positions[i]),
            normal |-> normalize(transform_vector3(transform, normal)),
            uv |-> uvs[i] ]],
      texture_face |-> texture_face ]

\* geometry.rs 40-44, 163-167: transform * (from_translation(offset) * from_scale(stretch))
final_transform(shape, transform) ==
    MatMul(transform, MatMul(from_translation(shape.offset), from_scale(shape.stretch)))

\* geometry.rs 135-150: the second copy of a box face
reversed_box_face(face) ==
    LET n == Len(face.vertices)
        reversed_normal == NegNormal(face.vertices[1].normal)
    IN  [ vertices |-> [i \in 1..n |->
              [ position |-> face.vertices[n + 1 - i].position,
                normal |-> reversed_normal,
                uv |-> face.vertices[n + 1 - i].uv ]],
          texture_face |-> face.texture_face ]

\* The second copy of a quad face with the vertices in the original order
reversed_quad_face_same_winding(face) ==
    [ vertices |-> [i \in 1..4 |->
          [ position |-> face.vertices[i].position,
            normal |-> NegNormal(face.vertices[1].normal),
            uv |-> face.vertices[i].uv ]],
      texture_face |-> face.texture_face ]

\* geometry.rs 294-311: the second copy of the quad face, vertices 1, 0, 3, 2
reversed_quad_face(face) ==
    LET order == <<2, 1, 4, 3>>
        reversed_normal == NegNormal(face.vertices[1].normal)
    IN  [ vertices |-> [i \in 1..4 |->
              [ position |-> face.vertices[order[i]].position,
                normal |-> reversed_normal,
                uv |-> face.vertices[order[i]].uv ]],
          texture_face |-> face.texture_face ]

\* geometry.rs 31-36, 156-160: the size of the shape or the default
BoxSize(shape) == IF IsSome(shape.size) THEN shape.size[1] ELSE <<1, 1, 1>>
QuadSize(shape) == IF IsSome(shape.size) THEN shape.size[1] ELSE <<1, 1, 0>>

\* geometry.rs 55-131: the six faces of the box, as positions, normal and name.
\* Sizes are even, so the halves are integers.
BoxFaces(hx, hy, hz) ==
    << [ps |-> <<<<-hx, -hy, hz>>, <<hx, -hy, hz>>, <<hx, hy, hz>>, <<-hx, hy, hz>>>>,
         n |-> <<0, 0, 1>>, name |-> "front"],
       [ps |-> <<<<hx, -hy, -hz>>, <<-hx, -hy, -hz>>, <<-hx, hy, -hz>>, <<hx, hy, -hz>>>>,
         n |-> <<0, 0, -1>>, name |-> "back"],
       [ps |-> <<<<hx, -hy, hz>>, <<hx, -hy, -hz>>, <<hx, hy, -hz>>, <<hx, hy, hz>>>>,
         n |-> <<1, 0, 0>>, name |-> "right"],
       [ps |-> <<<<-hx, -hy, -hz>>, <<-hx, -hy, hz>>, <<-hx, hy, hz>>, <<-hx, hy, -hz>>>>,
         n |-> <<-1, 0, 0>>, name |-> "left"],
       [ps |-> <<<<-hx, hy, hz>>, <<hx, hy, hz>>, <<hx, hy, -hz>>, <<-hx, hy, -hz>>>>,
         n |-> <<0, 1, 0>>, name |-> "top"],
       [ps |-> <<<<-hx, -hy, -hz>>, <<hx, -hy, -hz>>, <<hx, -hy, hz>>, <<-hx, -hy, hz>>>>,
         n |-> <<0, -1, 0>>, name |-> "bottom"] >>

\* geometry.rs 30-152
generate_box_geometry(shape, transform) ==
    LET size == BoxSize(shape)
        canon == BoxFaces(size[1] \div 2, size[2] \div 2, size[3] \div 2)
        faces == [k \in 1..6 |->
                    create_face_with_uvs(canon[k].ps, QUAD_UVS, canon[k].n, canon[k].name,
                                         final_transform(shape, transform))]
    IN  IF shape.double_sided
        THEN faces \o [k \in 1..6 |-> reversed_box_face(faces[k])]
        ELSE faces

\* geometry.rs 171-254: the face of the quad by its normal
QuadFace(normal, hx, hy, hz) ==
    CASE normal = "PosX" ->
           [ps |-> <<<<0, -hy, -hz>>, <<0, hy, -hz>>, <<0, hy, hz>>, <<0, -hy, hz>>>>,
            n |-> <<1, 0, 0>>, name |-> "right"]
      [] normal = "NegX" ->
           [ps |-> <<<<0, -hy, hz>>, <<0, hy, hz>>, <<0, hy, -hz>>, <<0, -hy, -hz>>>>,
            n |-> <<-1, 0, 0>>, name |-> "left"]
      [] normal = "PosY" ->
           [ps |-> <<<<-hx, 0, -hz>>, <<hx, 0, -hz>>, <<hx, 0, hz>>, <<-hx, 0, hz>>>>,
            n |-> <<0, 1, 0>>, name |-> "top"]
      [] normal = "NegY" ->
           [ps |-> <<<<-hx, 0, hz>>, <<hx, 0, hz>>, <<hx, 0, -hz>>, <<-hx, 0, -hz>>>>,
            n |-> <<0, -1, 0>>, name |-> "bottom"]
      [] normal = "PosZ" ->
           [ps |-> <<<<-hx, -hy, 0>>, <<hx, -hy, 0>>, <<hx, hy, 0>>, <<-hx, hy, 0>>>>,
            n |-> <<0, 0, 1>>, name |-> "front"]
      [] normal = "NegZ" ->
           [ps |-> <<<<hx, -hy, 0>>, <<-hx, -hy, 0>>, <<-hx, hy, 0>>, <<hx, hy, 0>>>>,
            n |-> <<0, 0, -1>>, name |-> "back"]

\* geometry.rs 256-270: the name the face is textured by
final_face_name(shape, face_name) ==
    IF ~IsSome(shape.texture_layout[face_name]) /\ IsSome(shape.texture_layout["front"])
    THEN "front" ELSE face_name

\* geometry.rs 155-316
generate_quad_geometry(shape, transform) ==
    LET size == QuadSize(shape)
        normal == IF IsSome(shape.normal) THEN shape.normal[1] ELSE "PosZ"
        canon == QuadFace(normal, size[1] \div 2, size[2] \div 2, size[3] \div 2)
        face == create_face_with_uvs(canon.ps, QUAD_UVS, canon.n,
                                     final_face_name(shape, canon.name),
                                     final_transform(shape, transform))
    IN  IF shape.double_sided THEN <<face, reversed_quad_face(face)>> ELSE <<face>>

\* geometry.rs 22-28
generate_geometry(shape, transform) ==
    CASE shape.shape_type = "Box" -> generate_box_geometry(shape, transform)
      [] shape.shape_type = "Quad" -> generate_quad_geometry(shape, transform)
      [] shape.shape_type = "None" -> <<>>

(***************************************************************************)
(* The shapes and world transforms the generator is run on                 *)
(***************************************************************************)

\* Largest absolute value of a stretch component
MaxStretch == 1

CardinalNames == {"front", "back", "left", "right", "top", "bottom"}

QuadNormals == {"PosX", "NegX", "PosY", "NegY", "PosZ", "NegZ"}

\* No face has a layout; only the front has one; all have one
LayoutNone == [f \in CardinalNames |-> None]
LayoutFront == [f \in CardinalNames |-> IF f = "front" THEN Some(UvPlain) ELSE None]
LayoutAll == [f \in CardinalNames |-> Some(UvPlain)]

\* Positive, negative and zero stretch on every axis
GeomStretches == [1..3 -> -MaxStretch..MaxStretch]

MkGeomShape(ty, off, s, sz, nm, ds, lay) ==
    [ shape_type |-> ty, offset |-> off, stretch |-> s, size |-> sz, normal |-> nm,
      double_sided |-> ds, texture_layout |-> lay ]

GeomOffsets == {<<0, 0, 0>>, <<1, -2, 3>>}

GeomSizes == {None, Some(<<4, 2, 6>>)}

GeomBoxes ==
    { MkGeomShape("Box", off, s, sz, None, ds, LayoutAll) :
        off \in GeomOffsets, s \in GeomStretches, sz \in GeomSizes, ds \in BOOLEAN }

GeomQuads ==
    { MkGeomShape("Quad", off, s, Some(<<4, 2, 6>>), Some(q), ds, lay) :
        off \in GeomOffsets, s \in GeomStretches, q \in QuadNormals, ds \in BOOLEAN,
        lay \in {LayoutNone, LayoutFront} }
    \cup { MkGeomShape("Quad", off, s, None, None, ds, LayoutFront) :
             off \in GeomOffsets, s \in GeomStretches, ds \in BOOLEAN }

GeomShapes ==
    GeomBoxes \cup GeomQuads
    \cup {MkGeomShape("None", <<0, 0, 0>>, <<1, 1, 1>>, None, None, FALSE, LayoutNone)}

\* World transforms of scene nodes: rotation and translation, unit scale
GeomTransforms ==
    { build_transform_matrix(<<0, 0, 0>>, QuatIdentity, <<1, 1, 1>>),
      build_transform_matrix(<<5, 0, -7>>, <<1, 0, 0, 0>>, <<1, 1, 1>>),
      build_transform_matrix(<<0, 3, 0>>, <<1, 1, 1, 1>>, <<1, 1, 1>>),
      build_transform_matrix(<<-2, 1, 4>>, <<0, 1, 0, 1>>, <<1, 1, 1>>) }

GeomInit ==
    /\ ClipIdle
    /\ RenderIdle
    /\ TintIdle
    /\ SceneIdle
    /\ AnimIdle
    /\ SkinIdle
    /\ CullIdle
    /\ MergeIdle
    /\ BoundsIdle
    /\ g_shape \in GeomShapes
    /\ g_transform \in GeomTransforms
    /\ g_faces = <<>>
    /\ g_pc = "start"

\* generate_geometry(&shape, transform)
Generate ==
    /\ g_pc = "start"
    /\ g_faces' = generate_geometry(g_shape, g_transform)
    /\ g_pc' = "done"
    /\ UNCHANGED <<g_shape, g_transform, clipVars, renderVars, tintVars, sceneVars, animVars, skinVars, cullVars, mergeVars, boundsVars>>

GeomNext == Generate

SpecGeom == GeomInit /\ [][GeomNext]_vars

(***************************************************************************)
(* Properties of the geometry generator                                    *)
(***************************************************************************)

\* The number of faces generated before the second copies are appended
OriginalCount == IF g_shape.double_sided THEN Len(g_faces) \div 2 ELSE Len(g_faces)

Positions(face) == [i \in 1..Len(face.vertices) |-> face.vertices[i].position]

\* q runs through the vertices of p in the opposite direction around the
\* polygon, from any starting vertex
ReversedWinding(p, q) ==
    /\ Len(p) = Len(q)
    /\ \E k \in 0..(Len(p) - 1) : \A i \in 1..Len(p) : q[i] = p[((k - i) % Len(p)) + 1]

\* copy is the second copy of face
SecondCopyOf(face, copy) ==
    /\ Len(face.vertices) = 4
    /\ ReversedWinding(Positions(face), Positions(copy))
    /\ \A i \in 1..4 : \A j \in 1..4 :
          copy.vertices[i].normal = NegNormal(face.vertices[j].normal)

\* C21: for a double-sided Box or Quad every face of the second half of the
\* result has the four positions of the face it copies in reversed winding
\* order and the negation of that face's normal
C21_SecondCopyReversed ==
    (g_pc = "done" /\ g_shape.double_sided /\ g_shape.shape_type \in {"Box", "Quad"})
        => /\ Len(g_faces) = 2 * OriginalCount
           /\ OriginalCount = (IF g_shape.shape_type = "Box" THEN 6 ELSE 1)
           /\ \A k \in 1..OriginalCount : SecondCopyOf(g_faces[k], g_faces[OriginalCount + k])

\* A double-sided quad with four distinct corners and a mirroring stretch
C21_Witness ==
    /\ g_pc = "done" /\ g_shape.double_sided /\ g_shape.shape_type = "Quad"
    /\ Len(g_faces) = 2
    /\ Cardinality({g_faces[1].vertices[i].position : i \in 1..4}) = 4
    /\ g_shape.stretch[1] < 0
    /\ Positions(g_faces[2]) # Positions(g_faces[1])

\* The canonical normals of the faces of a shape, in the order generated
CanonicalNormals(shape) ==
    CASE shape.shape_type = "Box" -> [k \in 1..6 |-> BoxFaces(1, 1, 1)[k].n]
      [] shape.shape_type = "Quad" ->
            <<QuadFace(IF IsSome(shape.normal) THEN shape.normal[1] ELSE "PosZ", 1, 1, 1).n>>
      [] shape.shape_type = "None" -> <<>>

\* The canonical normal under the rotation of the world transform alone,
\* re-normalized (the world transforms have unit scale)
RotatedNormal(transform, n) == normalize(transform_vector3(transform, n))

\* C22: every generated face normal is the canonical normal of the face
\* rotated by the world transform and re-normalized, whatever the stretch and
\* the offset of the shape
C22_NormalRotationOnly ==
    g_pc = "done"
        => \A k \in 1..Len(CanonicalNormals(g_shape)) : \A i \in 1..4 :
              g_faces[k].vertices[i].normal
                  = RotatedNormal(g_transform, CanonicalNormals(g_shape)[k])

(***************************************************************************)
(* cosmetic_attachment.rs: part-based culling of the hair faces            *)
(***************************************************************************)

\* The node names of the faces, and str::contains on them by pattern
NodeNames == {"HairBase", "Base", "HairTop", "Side", "Head", "Chest", "HatBase", "Hat", "Face", "Pants"}

NameContains(name, pattern) ==
    CASE pattern = "HairBase" -> name \in {"HairBase"}
      [] pattern = "Top" -> name \in {"HairTop"}
      [] pattern = "Base" -> name \in {"HairBase", "Base", "HatBase"}

\* render_pipeline.rs 53-58
HeadAccessoryCulling == {"None", "HalfCovering", "FullyCovering", "DisableHair"}

\* cosmetic_attachment.rs 611-627
should_keep_part(culling_mode, node_name) ==
    CASE culling_mode = "FullyCovering" ->
            NameContains(node_name, "HairBase") \/ node_name = "Base"
      [] culling_mode = "HalfCovering" ->
            IF NameContains(node_name, "HairBase") \/ node_name = "Base" THEN TRUE
            ELSE ~NameContains(node_name, "Top")
      [] OTHER -> TRUE

\* Vec::remove(i), i counted from 0
VecRemove(fs, i) == SubSeq(fs, 1, i) \o SubSeq(fs, i + 2, Len(fs))

RECURSIVE HairCullLoopOffByOne(_, _, _, _, _)
RECURSIVE HairCullLoop(_, _, _, _, _)

\* The loop indexing faces[i] before the decrement instead of after it
HairCullLoopOffByOne(fs, i, start_index, culling_mode, examined) ==
    IF ~(i > start_index) THEN [faces |-> fs, examined |-> examined, panicked |-> FALSE]
    ELSE IF i >= Len(fs) THEN [faces |-> fs, examined |-> examined, panicked |-> TRUE]
    ELSE IF IsSome(fs[i + 1].node_name) /\ ~should_keep_part(culling_mode, fs[i + 1].node_name[1])
         THEN HairCullLoopOffByOne(VecRemove(fs, i), i - 1, start_index, culling_mode, examined \o <<fs[i + 1]>>)
         ELSE HairCullLoopOffByOne(fs, i - 1, start_index, culling_mode, examined \o <<fs[i + 1]>>)

\* cosmetic_attachment.rs 629-639: the loop from the value i of its counter,
\* with the faces examined so far.  Indexing past the end of the Vec panics.
HairCullLoop(fs, i, start_index, culling_mode, examined) ==
    IF ~(i > start_index) THEN [faces |-> fs, examined |-> examined, panicked |-> FALSE]
    ELSE IF i - 1 >= Len(fs) THEN [faces |-> fs, examined |-> examined, panicked |-> TRUE]
    ELSE IF IsSome(fs[i].node_name) /\ ~should_keep_part(culling_mode, fs[i].node_name[1])
         THEN HairCullLoop(VecRemove(fs, i - 1), i - 1, start_index, culling_mode, examined \o <<fs[i]>>)
         ELSE HairCullLoop(fs, i - 1, start_index, culling_mode, examined \o <<fs[i]>>)

\* cosmetic_attachment.rs 601-640
apply_hair_culling_to_range(fs, start_index, end_index, culling_mode) ==
    HairCullLoop(fs, end_index, start_index, culling_mode, <<>>)

(***************************************************************************)
(* The face lists and ranges the culling is run on                         *)
(***************************************************************************)

\* Largest number of faces in the list handed to the culling
MaxCullFaces == 3

\* A TintedFace as far as the pipeline reads it: the node name, the cardinal
\* name of the face, whether its centre lies in the head volume, and what
\* attached it (application, cosmetic slot, position)
MkTintedFace(node_name, texture_face, internal, origin) ==
    [node_name |-> node_name, texture_face |-> texture_face, internal |-> internal, origin |-> origin]

CullNames == {None, Some("HairBase"), Some("HairTop"), Some("Side"), Some("Chest")}

CullFaceLists ==
    UNION { { [k \in 1..n |-> MkTintedFace(names[k], "front", FALSE, <<0, "input", k>>)] :
                names \in [1..n -> CullNames] } : n \in 0..MaxCullFaces }

CullInit ==
    /\ ClipIdle
    /\ RenderIdle
    /\ TintIdle
    /\ SceneIdle
    /\ AnimIdle
    /\ GeomIdle
    /\ SkinIdle
    /\ MergeIdle
    /\ BoundsIdle
    /\ h_faces \in CullFaceLists
    /\ h_start \in 0..(MaxCullFaces + 1)
    /\ h_end \in 0..(MaxCullFaces + 1)
    /\ h_mode \in HeadAccessoryCulling
    /\ h_out = <<>>
    /\ h_pc = "start"

\* apply_hair_culling_to_range(&mut faces, start_index, end_index, &culling_mode)
CullRange ==
    /\ h_pc = "start"
    /\ h_out' = apply_hair_culling_to_range(h_faces, h_start, h_end, h_mode)
    /\ h_pc' = "done"
    /\ UNCHANGED <<h_faces, h_start, h_end, h_mode, clipVars, renderVars, tintVars, sceneVars, animVars, geomVars, skinVars, mergeVars, boundsVars>>

CullNext == CullRange

SpecCull == CullInit /\ [][CullNext]_vars

(***************************************************************************)
(* Properties of the hair culling                                          *)
(***************************************************************************)

\* The positions (from 1) of the input faces the range covers
InRange(k) == h_start <= k - 1 /\ k - 1 < h_end

\* The input face at position k fails the keep rule of the mode
FailsKeep(k) ==
    IsSome(h_faces[k].node_name) /\ ~should_keep_part(h_mode, h_faces[k].node_name[1])

\* The positions of the input faces that are left in the output
Remaining == { k \in 1..Len(h_faces) : \E j \in 1..Len(h_out.faces) : h_out.faces[j] = h_faces[k] }

\* How often the input face at position k was examined
TimesExamined(k) == Cardinality({ j \in 1..Len(h_out.examined) : h_out.examined[j] = h_faces[k] })

\* What the culling is to have done to the list
CulledAsClaimed ==
    /\ \A k \in 1..Len(h_faces) : k \notin Remaining => (InRange(k) /\ FailsKeep(k))
    /\ h_out.faces = SelectSeq(h_faces, LAMBDA f : \E k \in Remaining : h_faces[k] = f)
    /\ \A k \in 1..Len(h_faces) : TimesExamined(k) = (IF InRange(k) THEN 1 ELSE 0)

\* C26 as stated: for every list and every range the culling removes only
\* faces in the range whose name fails the keep rule, keeps the order of the
\* others, and examines each face in the range exactly once
C26_CullsOnlyInRange == h_pc = "done" => CulledAsClaimed

\* C26: the same when the range ends within the list; a non-empty range that
\* ends beyond the list panics before any face is examined or removed
C26_CullsOnlyInRangeWithinList ==
    h_pc = "done"
        => /\ h_end <= Len(h_faces) => (~h_out.panicked /\ CulledAsClaimed)
           /\ (h_start < h_end /\ h_end > Len(h_faces))
                 => (h_out.panicked /\ h_out.faces = h_faces /\ h_out.examined = <<>>)

\* A range inside a longer list from which a face is removed while a named
\* face inside and a failing face outside are kept
C26_Witness ==
    /\ h_pc = "done" /\ ~h_out.panicked
    /\ 0 < h_start /\ h_start < h_end /\ h_end < Len(h_faces)
    /\ Len(h_out.faces) < Len(h_faces)
    /\ \E k \in 1..Len(h_faces) : ~InRange(k) /\ FailsKeep(k) /\ k \in Remaining

(***************************************************************************)
(* render_pipeline.rs: BodyRenderer, applying a skin                       *)
(***************************************************************************)

\* render_pipeline.rs 330-338: Vec::retain without the front face of the head
retain_without_head_front(fs) ==
    SelectSeq(fs, LAMBDA f : ~(IsSome(f.node_name) /\ f.node_name[1] = "Head" /\ f.texture_face = "front"))

\* The faces a cosmetic appends (cosmetic_attachment.rs 258-265: always at the
\* end, always with a node name), tagged with what attached them
AttachFaces(fs, templates, app, slot) ==
    fs \o [k \in 1..Len(templates) |->
             MkTintedFace(Some(templates[k].name), templates[k].texture_face,
                          templates[k].internal, <<app, slot, k>>)]

\* render_pipeline.rs 594-660: the culling predicate of the head accessory
\* loop.  head_info is whether the scene has a Head node with a shape;
\* face.internal is is_spatially_internal of the face against the head volume.
should_remove(face, head_info) ==
    IF head_info
    THEN \/ face.texture_face = "bottom" /\ face.internal
         \/ /\ face.texture_face = "top" /\ face.internal
            /\ IsSome(face.node_name) /\ NameContains(face.node_name[1], "Base")
    ELSE face.texture_face = "bottom"

RECURSIVE HeadCullLoopAlwaysAdvancing(_, _, _, _)
RECURSIVE HeadCullLoop(_, _, _, _)

\* The loop advancing its index after a removal as well
HeadCullLoopAlwaysAdvancing(fs, i, head_info, examined) ==
    IF ~(i < Len(fs)) THEN [faces |-> fs, examined |-> examined]
    ELSE IF should_remove(fs[i + 1], head_info)
         THEN HeadCullLoopAlwaysAdvancing(VecRemove(fs, i), i + 1, head_info, examined \o <<fs[i + 1]>>)
         ELSE HeadCullLoopAlwaysAdvancing(fs, i + 1, head_info, examined \o <<fs[i + 1]>>)

\* The loop run over the whole list instead of from face_count_before on
HeadCullLoopFromZero(fs, i, head_info, examined) ==
    [faces |-> SelectSeq(fs, LAMBDA f : ~should_remove(f, head_info)), examined |-> fs]

\* render_pipeline.rs 620-666: the loop from the value i of its index, with
\* the faces examined so far
HeadCullLoop(fs, i, head_info, examined) ==
    IF ~(i < Len(fs)) THEN [faces |-> fs, examined |-> examined]
    ELSE IF should_remove(fs[i + 1], head_info)
         THEN HeadCullLoop(VecRemove(fs, i), i, head_info, examined \o <<fs[i + 1]>>)
         ELSE HeadCullLoop(fs, i + 1, head_info, examined \o <<fs[i + 1]>>)

\* render_pipeline.rs 563-573: the culling mode of a head accessory definition
culling_mode_of(def) ==
    IF def.disable_character_part_category = Some("Haircut") THEN "DisableHair"
    ELSE IF def.head_accessory_type = Some("FullyCovering") THEN "FullyCovering"
    ELSE IF def.head_accessory_type = Some("HalfCovering") THEN "HalfCovering"
    ELSE "None"

\* Vec::drain(start..end): panics when start > end or end > len
VecDrain(fs, start, end) ==
    IF start > end \/ end > Len(fs)
    THEN [faces |-> fs, panicked |-> TRUE]
    ELSE [faces |-> SubSeq(fs, 1, start) \o SubSeq(fs, end + 1, Len(fs)), panicked |-> FALSE]

\* render_pipeline.rs 739-761
apply_hair_culling(fs, culling, range) ==
    IF IsSome(culling) /\ IsSome(range)
    THEN CASE culling[1] = "DisableHair" -> VecDrain(fs, range[1][1], range[1][2])
           [] culling[1] \in {"FullyCovering", "HalfCovering"} ->
                 [f \in {"faces", "panicked"} |->
                    apply_hair_culling_to_range(fs, range[1][1], range[1][2], culling[1])[f]]
           [] culling[1] = "None" -> [faces |-> fs, panicked |-> FALSE]
    ELSE [faces |-> fs, panicked |-> FALSE]

(***************************************************************************)
(* The skins applied                                                       *)
(***************************************************************************)

\* Largest number of skins applied to one BodyRenderer
MaxApplications == 2

Template(name, texture_face, internal) ==
    [name |-> name, texture_face |-> texture_face, internal |-> internal]

\* attach_base_body, render_pipeline.rs 163-185
BaseBody == <<Template("Head", "front", TRUE), Template("Chest", "front", FALSE)>>

FaceCosmetic == <<Template("Face", "front", FALSE)>>

Haircut == <<Template("HairBase", "top", TRUE), Template("HairTop", "bottom", TRUE),
             Template("Side", "front", FALSE), Template("Side", "back", FALSE)>>

HatFaces == <<Template("HatBase", "bottom", TRUE), Template("HatBase", "top", TRUE),
              Template("Hat", "top", TRUE), Template("Hat", "bottom", FALSE)>>

UnderwearFaces == <<Template("Pants", "bottom", TRUE)>>

PantsFaces == <<Template("Pants", "front", FALSE)>>

\* A head accessory of the registry by the two fields the mode is read from
AccessoryDef(category, ty) ==
    [disable_character_part_category |-> category, head_accessory_type |-> ty, faces |-> HatFaces]

AccessoryDefs ==
    { AccessoryDef(Some("Haircut"), None), AccessoryDef(None, Some("FullyCovering")),
      AccessoryDef(None, Some("HalfCovering")) }

\* A SkinConfig by what its cosmetics resolve to: face, haircut (the faces the
\* haircut attaches; none when the id is not in the registry), head_accessory
\* (its definition; None inside when the id is not in the registry), and
\* whether it has underwear and pants
MkSkinConfig(face, haircut, head_accessory, clothed) ==
    [face |-> face, haircut |-> haircut, head_accessory |-> head_accessory,
     underwear |-> clothed, pants |-> clothed]

SkinConfigs ==
    { MkSkinConfig(face, haircut, acc, TRUE) :
        face \in BOOLEAN, haircut \in {None, Some(Haircut)},
        acc \in {None} \cup {Some(Some(def)) : def \in AccessoryDefs} }
    \cup { MkSkinConfig(FALSE, Some(<<>>), Some(Some(AccessoryDef(None, Some("FullyCovering")))), FALSE),
           MkSkinConfig(FALSE, Some(Haircut), Some(Some(AccessoryDef(None, Some("Simple")))), FALSE),
           MkSkinConfig(FALSE, Some(Haircut), Some(None), FALSE),
           MkSkinConfig(FALSE, Some(Haircut), Some(Some(AccessoryDef(Some("Haircut"), None))), FALSE),
           MkSkinConfig(TRUE, None, None, FALSE) }

SkinInit ==
    /\ ClipIdle
    /\ RenderIdle
    /\ TintIdle
    /\ SceneIdle
    /\ AnimIdle
    /\ GeomIdle
    /\ CullIdle
    /\ MergeIdle
    /\ BoundsIdle
    /\ k_head \in BOOLEAN
    /\ k_faces = <<>>
    /\ hair_face_range = None
    /\ active_head_accessory_culling = None
    /\ k_config = <<>>
    /\ k_app = 0
    /\ k_headlog = <<>>
    /\ k_hairlog = <<>>
    /\ k_pc = "ready"

\* render_pipeline.rs 318-319, 323-485: attach_base_body and
\* attach_from_skin_config up to the haircut
AttachToHaircut(fs, c, app) ==
    LET based == AttachFaces(fs, BaseBody, app, "base")
        retained == IF c.face THEN retain_without_head_front(based) ELSE based
    IN  IF c.face THEN AttachFaces(retained, FaceCosmetic, app, "face") ELSE retained

\* render_pipeline.rs 487-500: the underwear
AttachUnderwear(fs, c, app) ==
    IF c.underwear THEN AttachFaces(fs, UnderwearFaces, app, "underwear") ELSE fs

\* apply_skin_with_provider, first part: the base body, the face cosmetics,
\* the haircut with its range, and the underwear
ApplySkin ==
    /\ k_pc = "ready"
    /\ k_app < MaxApplications
    /\ \E c \in SkinConfigs :
         \E fs \in {AttachToHaircut(k_faces, c, k_app + 1)} :
           /\ k_config' = c
           /\ IF IsSome(c.haircut)
              THEN \E haired \in {AttachFaces(fs, c.haircut[1], k_app + 1, "haircut")} :
                     /\ k_faces' = AttachUnderwear(haired, c, k_app + 1)
                     /\ hair_face_range' =
                          IF Len(haired) > Len(fs) THEN Some(<<Len(fs), Len(haired)>>)
                          ELSE hair_face_range
              ELSE k_faces' = AttachUnderwear(fs, c, k_app + 1) /\ UNCHANGED hair_face_range
    /\ k_app' = k_app + 1
    /\ k_pc' = "head_accessory"
    /\ UNCHANGED <<k_head, active_head_accessory_culling, k_headlog, k_hairlog,
                   clipVars, renderVars, tintVars, sceneVars, animVars, geomVars, cullVars, mergeVars, boundsVars>>

\* render_pipeline.rs 558-737: the head accessory with its culling loop, then
\* the cosmetics attached after it
HeadAccessory ==
    /\ k_pc = "head_accessory"
    /\ IF IsSome(k_config.head_accessory)
       THEN \E def \in {k_config.head_accessory[1]} :
            \E before \in {IF IsSome(def) THEN AttachFaces(k_faces, def[1].faces, k_app, "head_accessory")
                           ELSE k_faces} :
            \E out \in {HeadCullLoop(before, Len(k_faces), k_head, <<>>)} :
              /\ active_head_accessory_culling' =
                    IF IsSome(def) THEN Some(culling_mode_of(def[1])) ELSE active_head_accessory_culling
              /\ k_headlog' = [before |-> before, face_count_before |-> Len(k_faces),
                               examined |-> out.examined, after |-> out.faces]
              /\ k_faces' = IF k_config.pants THEN AttachFaces(out.faces, PantsFaces, k_app, "pants")
                            ELSE out.faces
       ELSE /\ k_headlog' = <<>>
            /\ k_faces' = IF k_config.pants THEN AttachFaces(k_faces, PantsFaces, k_app, "pants")
                          ELSE k_faces
            /\ UNCHANGED active_head_accessory_culling
    /\ k_pc' = "hair_culling"
    /\ UNCHANGED <<k_head, hair_face_range, k_config, k_app, k_hairlog,
                   clipVars, renderVars, tintVars, sceneVars, animVars, geomVars, cullVars, mergeVars, boundsVars>>

\* render_pipeline.rs 739-761: the hair culling that ends the application
HairCulling ==
    /\ k_pc = "hair_culling"
    /\ \E out \in {apply_hair_culling(k_faces, active_head_accessory_culling, hair_face_range)} :
         /\ k_hairlog' = [before |-> k_faces, panicked |-> out.panicked]
         /\ k_faces' = out.faces
         /\ k_pc' = IF out.panicked THEN "panicked" ELSE "ready"
    /\ UNCHANGED <<k_head, hair_face_range, active_head_accessory_culling, k_config, k_app, k_headlog,
                   clipVars, renderVars, tintVars, sceneVars, animVars, geomVars, cullVars, mergeVars, boundsVars>>

SkinNext == ApplySkin \/ HeadAccessory \/ HairCulling

SpecSkin == SkinInit /\ [][SkinNext]_vars

(***************************************************************************)
(* Properties of the skin pipeline                                         *)
(***************************************************************************)

\* Collect the indices (from 0) of the faces from face_count_before on that
\* satisfy the culling predicate, then remove them in a single pass
CollectThenRemove(fs, face_count_before, head_info) ==
    LET collected == { i \in face_count_before..(Len(fs) - 1) : should_remove(fs[i + 1], head_info) }
        kept == { i \in 0..(Len(fs) - 1) : i \notin collected }
    IN  SelectSeq(fs, LAMBDA f : \E i \in kept : fs[i + 1] = f)

\* The head accessory loop has run in the application that is under way
HeadLoopRan == k_pc = "hair_culling" /\ k_headlog # <<>>

\* C23: the head accessory loop leaves what collecting and removing in one
\* pass leaves, has examined each face from face_count_before on exactly once
\* and in order, and has kept every face below face_count_before in place
C23_HeadLoopIsSinglePass ==
    HeadLoopRan
        => /\ k_headlog.after
                = CollectThenRemove(k_headlog.before, k_headlog.face_count_before, k_head)
           /\ k_headlog.examined
                = SubSeq(k_headlog.before, k_headlog.face_count_before + 1, Len(k_headlog.before))
           /\ SubSeq(k_headlog.after, 1, k_headlog.face_count_before)
                = SubSeq(k_headlog.before, 1, k_headlog.face_count_before)

\* The loop has removed two neighbouring faces and kept a later one, after
\* faces below face_count_before that satisfy the predicate
C23_Witness ==
    /\ HeadLoopRan
    /\ Len(k_headlog.after) + 2 <= Len(k_headlog.before)
    /\ \E i \in (k_headlog.face_count_before + 1)..(Len(k_headlog.before) - 2) :
          /\ should_remove(k_headlog.before[i], k_head)
          /\ should_remove(k_headlog.before[i + 1], k_head)
          /\ ~should_remove(k_headlog.before[i + 2], k_head)
    /\ \E i \in 1..k_headlog.face_count_before : should_remove(k_headlog.before[i], k_head)

\* The faces the haircut of application app attached, in the order attached
IsHairOf(f, app) == f.origin[1] = app /\ f.origin[2] = "haircut"

\* Hair culling is about to act: a mode and a range are set
CullingArmed ==
    /\ k_pc = "hair_culling"
    /\ IsSome(active_head_accessory_culling) /\ IsSome(hair_face_range)

\* The tracked range lies in the list and holds exactly the faces the haircut
\* of application app attached
RangeIsHairOf(app) ==
    LET start == hair_face_range[1][1]
        end == hair_face_range[1][2]
    IN  /\ start < end /\ end <= Len(k_faces)
        /\ \A i \in 1..Len(k_faces) : IsHairOf(k_faces[i], app) <=> (start < i /\ i <= end)
        /\ \A i \in (start + 1)..end : k_faces[i].origin[3] = i - start

\* C24: in the first application on a fresh BodyRenderer, when hair culling
\* runs the tracked range lies in the list and holds exactly the faces the
\* haircut attached
C24_RangeIsTheHair == (CullingArmed /\ k_app = 1) => RangeIsHairOf(1)

\* Faces were attached and faces were removed after the range was recorded
C24_Witness ==
    /\ CullingArmed /\ k_app = 1
    /\ active_head_accessory_culling # Some("None")
    /\ k_headlog # <<>> /\ Len(k_headlog.after) < Len(k_headlog.before)
    /\ Len(k_faces) > hair_face_range[1][2] + 1
    /\ hair_face_range[1][1] > 0

\* The faces hair culling removed in the application that has just ended
RemovedByHairCulling ==
    { k_hairlog.before[i] : i \in 1..Len(k_hairlog.before) }
        \ { k_faces[i] : i \in 1..Len(k_faces) }

\* C25: hair culling of a later application removes hair faces only and does
\* not index or drain past the end of the list
C25_LaterCullingSafe ==
    (k_pc \in {"ready", "panicked"} /\ k_app > 1)
        => /\ ~k_hairlog.panicked
           /\ \A f \in RemovedByHairCulling : f.origin[2] = "haircut"

(***************************************************************************)
(* scene.rs: SceneGraph::merge_graph                                       *)
(***************************************************************************)

\* A SceneNode with its children held in place (scene.rs 10-18)
TreeNode(name, transform, shape, children, texture_id) ==
    [name |-> name, transform |-> transform, shape |-> shape,
     children |-> children, texture_id |-> texture_id]

RECURSIVE apply_texture_id_shallow(_, _)
RECURSIVE apply_texture_id_recursive(_, _)
RECURSIVE merge_node_recursive(_, _, _)
RECURSIVE merge_nodes(_, _, _)

\* The texture id set on the node alone
apply_texture_id_shallow(node, texture_id) ==
    [node EXCEPT !.texture_id = Some(texture_id)]

\* scene.rs 156-161
apply_texture_id_recursive(node, texture_id) ==
    [node EXCEPT !.texture_id = Some(texture_id),
                 !.children = [k \in 1..Len(node.children) |->
                                  apply_texture_id_recursive(node.children[k], texture_id)]]

\* scene.rs 144: nodes.iter_mut().find(|n| n.name == node.name), as the
\* position of the first node of that name (0: none)
FindByName(nodes, name) ==
    IF \E k \in 1..Len(nodes) : nodes[k].name = name
    THEN CHOOSE k \in 1..Len(nodes) :
            /\ nodes[k].name = name
            /\ \A j \in 1..(k - 1) : nodes[j].name # name
    ELSE 0

\* scene.rs 142-154
merge_node_recursive(nodes, node, texture_id) ==
    IF FindByName(nodes, node.name) > 0
    THEN [nodes EXCEPT ![FindByName(nodes, node.name)].children =
             merge_nodes(nodes[FindByName(nodes, node.name)].children, node.children, texture_id)]
    ELSE Append(nodes, apply_texture_id_recursive(node, texture_id))

\* scene.rs 137-139, 146-148: the loop over the nodes merged into one list
merge_nodes(nodes, others, texture_id) ==
    IF others = <<>> THEN nodes
    ELSE merge_nodes(merge_node_recursive(nodes, Head(others), texture_id), Tail(others), texture_id)

\* scene.rs 135-140
merge_graph(self, other, texture_id) == merge_nodes(self, other, texture_id)

(***************************************************************************)
(* The graphs merged                                                       *)
(***************************************************************************)

\* Largest texture id handed to merge_graph
MaxTextureId == 2

MergeNames == {"Head", "Hat"}

\* A node of the graph merged into: identity transform, no texture id or the
\* id of an earlier merge
SelfNode(name, children, texture_id) ==
    TreeNode(name, IDENTITY, Some(BoxShape(<<0, 0, 0>>, <<2, 2, 2>>, <<1, 1, 1>>, TRUE)), children, texture_id)

\* A node of the graph merged in, told apart by its place k among its siblings
OtherNode(name, k, children) ==
    TreeNode(name, from_translation(<<k, 0, 0>>), None, children, None)

SelfLeaves ==
    {<<>>} \cup {<<SelfNode(n, <<>>, None)>> : n \in MergeNames}
           \cup {<<SelfNode(a, <<>>, None), SelfNode(b, <<>>, Some(0))>> : a \in MergeNames, b \in MergeNames}

OtherLeaves ==
    {<<>>} \cup {<<OtherNode(n, 1, <<>>)>> : n \in MergeNames}
           \cup {<<OtherNode(a, 1, <<>>), OtherNode(b, 2, <<>>)>> : a \in MergeNames, b \in MergeNames}

SelfGraphs ==
    {<<>>} \cup {<<SelfNode(n, c, None)>> : n \in MergeNames, c \in SelfLeaves}
           \cup {<<SelfNode("Head", c, None), SelfNode("Head", d, Some(0))>> : c \in SelfLeaves, d \in SelfLeaves}

OtherGraphs ==
    {<<>>} \cup {<<OtherNode(n, 1, c)>> : n \in MergeNames, c \in OtherLeaves}
           \cup {<<OtherNode(a, 1, c), OtherNode(b, 2, d)>> :
                    a \in MergeNames, b \in MergeNames, c \in OtherLeaves, d \in OtherLeaves}

MergeInit ==
    /\ ClipIdle
    /\ RenderIdle
    /\ TintIdle
    /\ SceneIdle
    /\ AnimIdle
    /\ GeomIdle
    /\ SkinIdle
    /\ CullIdle
    /\ BoundsIdle
    /\ m_self \in SelfGraphs
    /\ m_other \in OtherGraphs
    /\ m_id \in 1..MaxTextureId
    /\ m_out = <<>>
    /\ m_pc = "start"

\* self.merge_graph(other, texture_id)
MergeGraph ==
    /\ m_pc = "start"
    /\ m_out' = merge_graph(m_self, m_other, m_id)
    /\ m_pc' = "done"
    /\ UNCHANGED <<m_self, m_other, m_id, clipVars, renderVars, tintVars, sceneVars, animVars, geomVars, skinVars, cullVars, boundsVars>>

MergeNext == MergeGraph

SpecMerge == MergeInit /\ [][MergeNext]_vars

(***************************************************************************)
(* Properties of the graph merge                                           *)
(***************************************************************************)

RECURSIVE Extends(_, _)
RECURSIVE AllTagged(_, _)
RECURSIVE AppendedTagged(_, _, _)
RECURSIVE AppendedNamesFresh(_, _)
RECURSIVE NamePaths(_)
RECURSIVE Payloads(_)
RECURSIVE AppendedFrom(_, _, _)

\* new holds every node of old at its place with its name, transform, shape
\* and texture id, level by level
Extends(old, new) ==
    /\ Len(new) >= Len(old)
    /\ \A k \in 1..Len(old) :
          /\ new[k].name = old[k].name
          /\ new[k].transform = old[k].transform
          /\ new[k].shape = old[k].shape
          /\ new[k].texture_id = old[k].texture_id
          /\ Extends(old[k].children, new[k].children)

\* The node and its whole subtree carry the texture id
AllTagged(node, id) ==
    /\ node.texture_id = Some(id)
    /\ \A k \in 1..Len(node.children) : AllTagged(node.children[k], id)

\* Every node of new beyond those of old carries the id on its whole subtree
AppendedTagged(old, new, id) ==
    /\ \A k \in 1..Len(old) : AppendedTagged(old[k].children, new[k].children, id)
    /\ \A k \in (Len(old) + 1)..Len(new) : AllTagged(new[k], id)

\* At every level of old, a node appended to the level has a name no earlier
\* node of the level has
AppendedNamesFresh(old, new) ==
    /\ \A k \in (Len(old) + 1)..Len(new) : \A j \in 1..(k - 1) : new[j].name # new[k].name
    /\ \A k \in 1..Len(old) : AppendedNamesFresh(old[k].children, new[k].children)

\* The paths of names from a root to a node
NamePaths(nodes) ==
    UNION { {<<nodes[k].name>>} \cup { <<nodes[k].name>> \o p : p \in NamePaths(nodes[k].children) } :
              k \in 1..Len(nodes) }

\* Name, transform and shape of every node
Payloads(nodes) ==
    UNION { {<<nodes[k].name, nodes[k].transform, nodes[k].shape>>} \cup Payloads(nodes[k].children) :
              k \in 1..Len(nodes) }

\* Every node of new beyond those of old has the name, transform and shape of
\* a node of the graph merged in
AppendedFrom(old, new, payloads) ==
    /\ \A k \in 1..Len(old) : AppendedFrom(old[k].children, new[k].children, payloads)
    /\ \A k \in (Len(old) + 1)..Len(new) : Payloads(<<new[k]>>) \subseteq payloads

\* C27: after merge_graph every node the graph had is in place with its
\* transform, shape and texture id; what was added comes from the other graph
\* and carries the id on its whole subtree; every name path of the other graph
\* is in the result; and no node was added next to a sibling of its name
C27_MergeKeepsAndTags ==
    m_pc = "done"
        => /\ Extends(m_self, m_out)
           /\ AppendedTagged(m_self, m_out, m_id)
           /\ AppendedFrom(m_self, m_out, Payloads(m_other))
           /\ AppendedNamesFresh(m_self, m_out)
           /\ NamePaths(m_out) = NamePaths(m_self) \cup NamePaths(m_other)

\* One root of the other graph was appended with a child, another matched a
\* root that had a texture id of its own and gave it a child
C27_Witness ==
    /\ m_pc = "done"
    /\ Len(m_self) = 2 /\ Len(m_out) = 3 /\ Len(m_other) = 2
    /\ Len(m_out[3].children) > 0
    /\ Len(m_out[1].children) > Len(m_self[1].children)
    /\ Len(m_self[1].children) > 0
    /\ m_self[2].texture_id = Some(0)

(***************************************************************************)
(* renderer/rasterizer.rs 53-68, renderer/debug.rs 108-133: the pixel      *)
(* loops of one triangle, in the arithmetic of the machine.                *)
(*                                                                         *)
(* An f32 is a rational <<n, d>> with d > 0, or NaN (<<0, 0>>), or an      *)
(* infinity (<<1, 0>>, <<-1, 0>>).  A u32 is held by its 32-bit pattern,   *)
(* so a value at or above 2^31 is the negative integer of two's            *)
(* complement: u32::MAX is -1, and 0 - 1 wraps to it.                      *)
(***************************************************************************)
F32NaN == <<0, 0>>
F32Inf == <<1, 0>>
F32NegInf == <<-1, 0>>
U32_MAX == -1

IsNaN(a) == a[1] = 0 /\ a[2] = 0
IsFinite(a) == a[2] # 0
Sgn(n) == IF n > 0 THEN 1 ELSE IF n < 0 THEN -1 ELSE 0

\* a < b on f32: false when either is NaN
F32Lt(a, b) ==
    /\ ~IsNaN(a)
    /\ ~IsNaN(b)
    /\ IF a[2] = 0 /\ b[2] = 0 THEN a[1] < b[1] ELSE RatLt(a, b)

\* f32::min and f32::max: a NaN operand is ignored
f32_min(a, b) == IF IsNaN(a) THEN b ELSE IF IsNaN(b) THEN a ELSE IF F32Lt(b, a) THEN b ELSE a
f32_max(a, b) == IF IsNaN(a) THEN b ELSE IF IsNaN(b) THEN a ELSE IF F32Lt(a, b) THEN b ELSE a

\* `as u32` of an f32: NaN and negatives become 0, values beyond the type
\* saturate, the rest is truncated
f32_as_u32(a) ==
    IF IsNaN(a) \/ a[1] <= 0 THEN 0
    ELSE IF a[2] = 0 THEN U32_MAX
    ELSE a[1] \div a[2]

\* a <= b on u32 bit patterns
U32Le(a, b) == IF (a < 0) = (b < 0) THEN a <= b ELSE b < 0
u32_min(a, b) == IF U32Le(a, b) THEN a ELSE b

\* f32 arithmetic with NaN and the infinities
F32Neg(a) == <<-a[1], a[2]>>
F32Add(a, b) ==
    IF IsNaN(a) \/ IsNaN(b) THEN F32NaN
    ELSE IF a[2] = 0 /\ b[2] = 0 THEN (IF a[1] = b[1] THEN a ELSE F32NaN)
    ELSE IF a[2] = 0 THEN a
    ELSE IF b[2] = 0 THEN b
    ELSE RAdd(a, b)
F32Sub(a, b) == F32Add(a, F32Neg(b))
F32Mul(a, b) ==
    IF IsNaN(a) \/ IsNaN(b) THEN F32NaN
    ELSE IF a[2] = 0 \/ b[2] = 0
         THEN (IF a[1] = 0 \/ b[1] = 0 THEN F32NaN ELSE <<Sgn(a[1]) * Sgn(b[1]), 0>>)
    ELSE RMul(a, b)
\* 1.0 / denom, for a denom that is not 0
F32Inv(a) == IF IsNaN(a) THEN F32NaN ELSE IF a[2] = 0 THEN RInt(0) ELSE RDiv(RInt(1), a)
F32Ge0(a) == ~IsNaN(a) /\ a[1] >= 0

\* math.rs 18-59 on f32 values that need not be finite: TRUE when the three
\* weights pass bary_u >= 0.0 && bary_v >= 0.0 && bary_w >= 0.0
\* (rasterizer.rs 63, debug.rs 119).  denom.abs() < 1e-10 is false for a
\* NaN or infinite denom.
F32WeightsPass(dot00, dot01, dot02, dot11, dot12, denom) ==
    IF IsFinite(denom) /\ denom[1] = 0 THEN FALSE
    ELSE \E u \in {F32Mul(F32Sub(F32Mul(dot11, dot02), F32Mul(dot01, dot12)), F32Inv(denom))} :
         \E v \in {F32Mul(F32Sub(F32Mul(dot00, dot12), F32Mul(dot01, dot02)), F32Inv(denom))} :
            /\ F32Ge0(u)
            /\ F32Ge0(v)
            /\ F32Ge0(F32Sub(F32Sub(RInt(1), u), v))

F32DotsPass(dot00, dot01, dot02, dot11, dot12) ==
    F32WeightsPass(dot00, dot01, dot02, dot11, dot12, F32Sub(F32Mul(dot00, dot11), F32Mul(dot01, dot01)))

F32EdgesPass(v0x, v0y, v1x, v1y, v2x, v2y) ==
    F32DotsPass(F32Add(F32Mul(v0x, v0x), F32Mul(v0y, v0y)),
                F32Add(F32Mul(v0x, v1x), F32Mul(v0y, v1y)),
                F32Add(F32Mul(v0x, v2x), F32Mul(v0y, v2y)),
                F32Add(F32Mul(v1x, v1x), F32Mul(v1y, v1y)),
                F32Add(F32Mul(v1x, v2x), F32Mul(v1y, v2y)))

\* rasterizer.rs 60-63, debug.rs 117-119: the centre of pixel (x, y) passes
\* the barycentric test of the triangle vs
PixelCovered(vs, x, y) ==
    F32EdgesPass(F32Sub(vs[3][1], vs[1][1]), F32Sub(vs[3][2], vs[1][2]),
                 F32Sub(vs[2][1], vs[1][1]), F32Sub(vs[2][2], vs[1][2]),
                 F32Sub(RAdd(RInt(x), Half), vs[1][1]), F32Sub(RAdd(RInt(y), Half), vs[1][2]))

\* rasterizer.rs 53-56, debug.rs 109-112: the four bounds before the loops
LoopBounds(vs, width, height) ==
    [ min_x |-> f32_as_u32(f32_max(f32_min(f32_min(vs[1][1], vs[2][1]), vs[3][1]), RInt(0))),
      max_x |-> f32_as_u32(f32_min(f32_max(f32_max(vs[1][1], vs[2][1]), vs[3][1]), RInt(width))),
      min_y |-> f32_as_u32(f32_max(f32_min(f32_min(vs[1][2], vs[2][2]), vs[3][2]), RInt(0))),
      max_y |-> f32_as_u32(f32_min(f32_max(f32_max(vs[1][2], vs[2][2]), vs[3][2]), RInt(height))) ]

\* rasterizer.rs 58-59, debug.rs 114-115: image.height() - 1 and
\* image.width() - 1 on u32; at 0 the pattern wraps to u32::MAX
SizeMinusOne(size) == size - 1

\* The values min..=max.min(size - 1) of a loop; max is at most size, so
\* the range lies in 0..size whatever size - 1 wrapped to
LoopRange(min, max, size) ==
    {v \in 0..size : U32Le(min, v) /\ U32Le(v, u32_min(max, SizeMinusOne(size)))}

\* rasterizer.rs 68, debug.rs 124: (y * output_width + x) as usize
buffer_index(x, y, output_width) == y * output_width + x

\* (y, x) comes no later than (y2, x2) in the order of the loops
LoopOrder(x, y, x2, y2) == y < y2 \/ (y = y2 /\ x <= x2)

\* The pixels whose depth the loops read, given the covered pixels of the
\* ranges: indexing depth_buffer at or beyond its length panics, and
\* nothing after the first such pixel happens
ReadsOf(covered, width, len) ==
    LET beyond == {p \in covered : buffer_index(p[1], p[2], width) >= len}
    IN  IF beyond = {} THEN covered
        ELSE {p \in covered : \A q \in beyond : LoopOrder(p[1], p[2], q[1], q[2])}

\* The loops from their bounds b.  underflow: a size - 1 at size 0 was
\* computed (the y range always is; the x range once per y).  A build with
\* overflow checks panics there.  reads: the pixels whose depth-buffer entry
\* was indexed, each of which the body may then write in depth_buffer and
\* in the image at the same place.
LoopsFrom(vs, b, width, height, checked) ==
    LET ys == LoopRange(b.min_y, b.max_y, height)
        underflow == height = 0 \/ (ys # {} /\ width = 0)
        xs == LoopRange(b.min_x, b.max_x, width)
        covered == {p \in xs \X ys : PixelCovered(vs, p[1], p[2])}
        reads == IF underflow /\ checked THEN {} ELSE ReadsOf(covered, width, width * height)
    IN  [ underflow |-> underflow,
          reads     |-> reads,
          panicked  |-> (underflow /\ checked)
                        \/ \E p \in reads : buffer_index(p[1], p[2], width) >= width * height ]

\* rasterizer.rs 53-68 / debug.rs 108-133 with mod.rs 183-187: the loops
\* of a triangle over an image of width x height and a depth buffer of
\* width * height entries
PixelLoops(vs, width, height, checked) ==
    LoopsFrom(vs, LoopBounds(vs, width, height), width, height, checked)

\* The largest output size of the model
MaxSize == 2

\* Screen coordinates: inside a small image, negative, beyond it, not finite
ScreenPoints ==
    { <<RInt(-2), RInt(-2)>>, <<RInt(0), RInt(0)>>, <<RInt(MaxSize + 1), RInt(0)>>,
      <<RInt(0), RInt(MaxSize + 1)>>, <<RInt(2 * MaxSize + 5), RInt(2 * MaxSize + 5)>>,
      <<F32NaN, RInt(0)>>, <<F32Inf, RInt(1)>>, <<RInt(1), F32NegInf>>, <<F32NaN, F32NaN>> }

BoundsInit ==
    /\ b_tri \in ScreenPoints \X ScreenPoints \X ScreenPoints
    /\ b_width \in 0..MaxSize
    /\ b_height \in 0..MaxSize
    /\ b_checked \in BOOLEAN
    /\ b_out = <<>>
    /\ b_pc = "start"
    /\ ClipIdle
    /\ RenderIdle
    /\ TintIdle
    /\ SceneIdle
    /\ AnimIdle
    /\ GeomIdle
    /\ SkinIdle
    /\ CullIdle
    /\ MergeIdle

\* render_triangle_tinted: rasterizer.rs 53-68
RenderTriangleTinted ==
    /\ b_pc = "start"
    /\ \E r \in {PixelLoops(b_tri, b_width, b_height, b_checked)} :
        /\ b_out' = r @@ [by |-> "render_triangle_tinted"]
        /\ b_pc' = IF r.panicked THEN "panicked" ELSE "done"
    /\ UNCHANGED <<b_tri, b_width, b_height, b_checked, clipVars, renderVars, tintVars, sceneVars, animVars, geomVars, skinVars, cullVars, mergeVars>>

\* render_triangle_debug: debug.rs 108-133
RenderTriangleDebug ==
    /\ b_pc = "start"
    /\ \E r \in {PixelLoops(b_tri, b_width, b_height, b_checked)} :
        /\ b_out' = r @@ [by |-> "render_triangle_debug"]
        /\ b_pc' = IF r.panicked THEN "panicked" ELSE "done"
    /\ UNCHANGED <<b_tri, b_width, b_height, b_checked, clipVars, renderVars, tintVars, sceneVars, animVars, geomVars, skinVars, cullVars, mergeVars>>

BoundsNext == RenderTriangleTinted \/ RenderTriangleDebug

SpecBounds == BoundsInit /\ [][BoundsNext]_vars

(***************************************************************************)
(* Properties of the pixel loops                                           *)
(***************************************************************************)
\* The loops have run, to their end or to a panic
LoopsRan == b_pc \in {"done", "panicked"}

\* Every depth-buffer index used is below width x height and every pixel
\* used is inside the image
AccessesInside ==
    \A p \in b_out.reads :
        /\ buffer_index(p[1], p[2], b_width) < b_width * b_height
        /\ p[1] < b_width
        /\ p[2] < b_height

\* C29: for any screen coordinates and any output size, width or height 0
\* included, rasterization uses only depth-buffer indices below
\* width x height and pixels inside the image, and computing the loop
\* bounds neither underflows nor panics.
C29_LoopsStayInside ==
    LoopsRan => (AccessesInside /\ ~b_out.underflow /\ b_pc # "panicked")

\* The same for output sizes of at least 1 x 1
LoopsStayInsideNonEmpty ==
    (LoopsRan /\ b_width > 0 /\ b_height > 0)
        => (AccessesInside /\ ~b_out.underflow /\ b_pc # "panicked")

(***************************************************************************)
(* Properties of the returned polygon: plane inequalities and the          *)
(* perspective divide (clip.rs 62-69, 164-204, mod.rs 230-240)             *)
(***************************************************************************)
\* mod.rs 232-236: clip_pos / w, for a w that is not 0
PerspectiveDivide(cv) ==
    [k \in 1..3 |-> Rat(cv.clip_pos[k], cv.clip_pos[4])]

\* The vertex satisfies the inequality of every plane
InsideAllPlanes(v) == \A k \in 1..Len(planes) : is_inside(v, planes[k])

\* The divide of the vertex is defined and gives NDC coordinates in [-1,1]
NDCInRange(v) ==
    /\ v.clip_pos[4] # 0
    /\ \A k \in 1..3 :
          /\ RatLe(RInt(-1), PerspectiveDivide(v)[k])
          /\ RatLe(PerspectiveDivide(v)[k], RInt(1))

\* The divide of the vertex is defined and its screen coordinates lie in the
\* rectangle of an image of width x height
OnScreen(v, width, height) ==
    /\ v.clip_pos[4] # 0
    /\ \E s \in {ProjectVertex(v, RenderCamera, width, height)} :
          /\ RatLe(RInt(0), s[1]) /\ RatLe(s[1], RInt(width))
          /\ RatLe(RInt(0), s[2]) /\ RatLe(s[2], RInt(height))

\* The signed distance of the vertex to the plane is above -0.5e-10
AboveHalfEps(v, plane) == 2 * signed_distance(v.clip_pos, plane) > -(ClipEps * v.den)

\* vertices[i] is the intersection vertex of an edge of c_prev that crosses
\* the last plane with a denominator below 1e-10: the midpoint fallback
FromMidpointFallback(i) ==
    \E e \in 1..Len(c_prev) :
        /\ Crossing(c_prev, LastPlane, e)
        /\ TinyDenominator(c_prev, LastPlane, e)
        /\ i = EdgeOffset(c_prev, LastPlane, e) + 1

\* C30 (as claimed): every vertex of a returned polygon satisfies all six
\* plane inequalities, vertices of the midpoint fallback included, so its
\* NDC coordinates lie in [-1,1] and its screen coordinates in the image
\* rectangle.
C30_ReturnedInsideFrustum ==
    c_result = "Some" =>
        \A i \in 1..Len(vertices) :
            /\ InsideAllPlanes(vertices[i])
            /\ NDCInRange(vertices[i])
            /\ OnScreen(vertices[i], Width, Height)

\* C30 (amended): after each plane, a vertex lies outside that plane only if
\* the midpoint fallback produced it, outside an earlier plane only if a
\* vertex before the step did, and never by 0.5e-10 or more; a returned
\* vertex that satisfies the six inequalities and has w > 0 has NDC
\* coordinates in [-1,1] and screen coordinates in the image rectangle, and
\* one with w = 0 satisfies them with the clip position (0,0,0,0).
C30_InsideUpToMidpointFallback ==
    /\ (c_plane >= 1 /\ Len(c_prev) >= 3) =>
          \A i \in 1..Len(vertices) :
              /\ ~is_inside(vertices[i], LastPlane) => FromMidpointFallback(i)
              /\ \A k \in 1..c_plane :
                    /\ AboveHalfEps(vertices[i], planes[k])
                    /\ (k < c_plane /\ ~is_inside(vertices[i], planes[k]))
                          => \E j \in 1..Len(c_prev) : ~is_inside(c_prev[j], planes[k])
    /\ c_result = "Some" =>
          \A i \in 1..Len(vertices) :
              InsideAllPlanes(vertices[i]) =>
                  /\ vertices[i].clip_pos[4] >= 0
                  /\ vertices[i].clip_pos[4] > 0 =>
                        (NDCInRange(vertices[i]) /\ OnScreen(vertices[i], Width, Height))
                  /\ vertices[i].clip_pos[4] = 0 => vertices[i].clip_pos = <<0, 0, 0, 0>>

\* A returned polygon with a vertex of the midpoint fallback outside the far
\* plane and a vertex inside all planes that lands on the screen
C30_Witness ==
    /\ c_result = "Some"
    /\ \E i \in 1..Len(vertices) :
          /\ FromMidpointFallback(i)
          /\ ~is_inside(vertices[i], LastPlane)
    /\ \E i \in 1..Len(vertices) :
          /\ InsideAllPlanes(vertices[i])
          /\ vertices[i].clip_pos[4] > 0
          /\ OnScreen(vertices[i], Width, Height)

====
